---- MODULE Spec2Model ----
(***************************************************************************)
(* A model of the coordinator of a6ar55/file_sync:                         *)
(*   - the on-disk version store   (coordinator/file_manager.py)           *)
(*   - the vector-clock manager    (coordinator/server.py, shared/models)  *)
(*   - the delta engine            (coordinator/server.py)                 *)
(*   - the request surface         (coordinator/server.py, database.py)    *)
(* Each component has its own specification over the shared variables;     *)
(* the variables of the other components stay at their initial value.      *)
(***************************************************************************)
EXTENDS Integers, Sequences, FiniteSets, TLC

VARIABLES
    \* FileVersionManager (file_manager.py)
    metadata_dir,      \* version_id -> metadata record of <version_id>.json
    versions_dir,      \* version_id -> bytes of <version_id>.data
    version_cache,     \* version_id -> FileVersion object held in memory
    next_version_id,   \* the next fresh version id
    \* EnhancedVectorClockManager (server.py)
    node_clocks,       \* node_id -> clocks dict
    global_nodes,      \* set of known node ids
    observed,          \* node_id -> largest value its own entry has held
    lastOp,            \* the last clock-manager call and what it saw
    \* CoordinatorServer (server.py) and DatabaseManager (database.py)
    db_nodes,          \* nodes table: node_id -> status
    db_files,          \* files table: file_id -> FileMetadata row
    db_events,         \* events table, in insertion order
    db_conflicts,      \* conflicts table
    file_versions,     \* SimpleFileManager.file_versions
    file_content,      \* SimpleFileManager.file_content
    next_uuid,         \* the next fresh uuid4
    response,          \* the response of the last request
    uploaded,          \* file_id -> payload of its last upload request
    \* the subscriptions of CoordinatorServer and the coroutines in progress
    active_connections,  \* the dashboard sockets subscribed
    node_connections,    \* node_id -> the socket of the node subscription
    alive,               \* the sockets whose peer is connected: a send succeeds
    delivered,           \* socket -> the event ids sent to it, in order
    tasks,               \* task id -> a coroutine suspended at an await
    \* pure functions: the arguments, the result, the position
    args, result, pc

vars == <<metadata_dir, versions_dir, version_cache, next_version_id,
          node_clocks, global_nodes, observed, lastOp,
          db_nodes, db_files, db_events, db_conflicts,
          file_versions, file_content, next_uuid, response, uploaded,
          active_connections, node_connections, alive, delivered, tasks,
          args, result, pc>>

versionVars == <<metadata_dir, versions_dir, version_cache, next_version_id>>
clockVars == <<node_clocks, global_nodes, observed, lastOp>>
serverVars == <<db_nodes, db_files, db_events, db_conflicts,
                file_versions, file_content, next_uuid, response, uploaded>>
busVars == <<active_connections, node_connections, alive, delivered, tasks>>
pureVars == <<args, result, pc>>

(***************************************************************************)
(* Bounds                                                                  *)
(***************************************************************************)
\* how many versions the version store creates in one run
MaxVersions == 5
\* the largest keep_versions argument tried
MaxKeep == 2

(***************************************************************************)
(* Dictionaries                                                            *)
(***************************************************************************)
EmptyMap == [k \in {} |-> k]

Put(m, k, v) == [x \in (DOMAIN m) \cup {k} |-> IF x = k THEN v ELSE m[x]]

Remove(m, k) == [x \in (DOMAIN m) \ {k} |-> m[x]]

\* dict.get(k, d)
Get(m, k, d) == IF k \in DOMAIN m THEN m[k] ELSE d

Max(S) == CHOOSE x \in S : \A y \in S : y <= x

\* all orderings of a finite set, as sequences
Permutations_(S) ==
    {s \in [1..Cardinality(S) -> S] : \A i, j \in 1..Cardinality(S) : i # j => s[i] # s[j]}

(***************************************************************************)
(* SHA-256: collision free, so a digest stands for the bytes it was        *)
(* computed from.                                                          *)
(***************************************************************************)
calculate_content_hash(content) == <<"sha256", content>>

(***************************************************************************)
(* FileVersionManager                                                      *)
(***************************************************************************)
FileIds == {"f1", "f2"}

\* the byte strings handed to create_version
VersionContents == {<<>>, <<104>>}

\* the three stores as one value
Store == [meta |-> metadata_dir, data |-> versions_dir, cache |-> version_cache]

\* get_file_versions: the versions of a file read from the metadata
\* directory, sorted by version_number.  sorted() is stable over glob()
\* order, which is arbitrary, so versions with the same number come in any
\* order: the set of lists the call can return.
get_file_versions(meta, file_id) ==
    LET ids == {v \in DOMAIN meta : meta[v].file_id = file_id}
    IN  {[i \in 1..Cardinality(ids) |-> meta[p[i]]] : p \in
            {q \in Permutations_(ids) :
                \A i, j \in 1..Cardinality(ids) :
                    i < j => meta[q[i]].version_number <= meta[q[j]].version_number}}

\* get_version: the cached object if there is one, else the metadata file
\* (which is then cached), else None
\* (asked only for a version_id that VersionFound says is there)
get_version(st, version_id) ==
    IF version_id \in DOMAIN st.cache THEN st.cache[version_id]
    ELSE st.meta[version_id]

\* whether get_version finds the version (does not return None)
VersionFound(st, version_id) ==
    version_id \in DOMAIN st.cache \/ version_id \in DOMAIN st.meta

get_version_cache(st, version_id) ==
    IF version_id \notin DOMAIN st.cache /\ version_id \in DOMAIN st.meta
    THEN Put(st.cache, version_id, st.meta[version_id])
    ELSE st.cache

\* the version number create_version gives the new version
NewVersionNumber(existing_versions) == Len(existing_versions) + 1

\* create_version: the store after the call
create_version(st, version_id, file_id, content) ==
    LET existing_versions == CHOOSE l \in get_file_versions(st.meta, file_id) : TRUE
        version == [version_id |-> version_id,
                    file_id |-> file_id,
                    version_number |-> NewVersionNumber(existing_versions),
                    hash |-> calculate_content_hash(content),
                    size |-> Len(content),
                    is_current |-> TRUE]
        demoted == [v \in DOMAIN st.meta |->
                      IF st.meta[v].file_id = file_id
                      THEN [st.meta[v] EXCEPT !.is_current = FALSE]
                      ELSE st.meta[v]]
    IN  [meta |-> Put(demoted, version_id, version),
         data |-> Put(st.data, version_id, content),
         cache |-> Put(st.cache, version_id, version)]

\* the first element of a list with the largest version_number: max(..., key=)
FirstMax(l) ==
    LET i == CHOOSE i \in 1..Len(l) :
                /\ \A j \in 1..Len(l) : l[j].version_number <= l[i].version_number
                /\ \A j \in 1..(i - 1) : l[j].version_number < l[i].version_number
    IN  l[i]

\* whether delete_version treats the version it deletes as the current one
DeletedIsCurrent(version) == version.is_current

\* delete_version: the outcomes the call can have, [st, ok]
delete_version(st, version_id) ==
    LET version == get_version(st, version_id)
        st1 == [st EXCEPT !.cache = get_version_cache(st, version_id)]
    IN  IF ~VersionFound(st, version_id) THEN {[st |-> st, ok |-> FALSE]}
        ELSE
        {   IF Len(file_versions_) = 1 /\ DeletedIsCurrent(version)
            THEN [st |-> st1, ok |-> FALSE]
            ELSE
            LET removed == [meta |-> Remove(st1.meta, version_id),
                            data |-> Remove(st1.data, version_id),
                            cache |-> Remove(st1.cache, version_id)]
                remaining_versions ==
                    SelectSeq(file_versions_, LAMBDA v : v.version_id # version_id)
            IN  IF DeletedIsCurrent(version) /\ Len(remaining_versions) > 0
                THEN LET latest_version == FirstMax(remaining_versions)
                     IN  [st |-> [removed EXCEPT
                                    !.meta[latest_version.version_id].is_current = TRUE],
                          ok |-> TRUE]
                ELSE [st |-> removed, ok |-> TRUE]
          : file_versions_ \in get_file_versions(st1.meta, version.file_id) }

\* cleanup_old_versions: the loop over versions_to_delete, from position i
RECURSIVE cleanup_loop(_, _, _)
cleanup_loop(st, versions_to_delete, i) ==
    IF i > Len(versions_to_delete) THEN {st}
    ELSE IF versions_to_delete[i].is_current
         THEN cleanup_loop(st, versions_to_delete, i + 1)
         ELSE UNION {cleanup_loop(o.st, versions_to_delete, i + 1) :
                        o \in delete_version(st, versions_to_delete[i].version_id)}

\* cleanup_old_versions: the stores the call can leave
cleanup_old_versions(st, file_id, keep_versions) ==
    UNION {
        IF Len(versions) <= keep_versions THEN {st}
        ELSE LET versions_to_delete ==
                    \* versions[:-keep_versions]; versions[:-0] is empty
                    IF keep_versions = 0 THEN <<>>
                    ELSE SubSeq(versions, 1, Len(versions) - keep_versions)
             IN  cleanup_loop(st, versions_to_delete, 1)
      : versions \in get_file_versions(st.meta, file_id) }

SetStore(st) ==
    /\ metadata_dir' = st.meta
    /\ versions_dir' = st.data
    /\ version_cache' = st.cache

CreateVersion ==
    \E file_id \in FileIds, content \in VersionContents :
        /\ next_version_id <= MaxVersions
        /\ SetStore(create_version(Store, next_version_id, file_id, content))
        /\ next_version_id' = next_version_id + 1
        /\ UNCHANGED <<busVars, clockVars, serverVars, pureVars>>

DeleteVersion ==
    \E version_id \in 1..MaxVersions :
        \E o \in delete_version(Store, version_id) :
            /\ SetStore(o.st)
            /\ UNCHANGED <<busVars, next_version_id, clockVars, serverVars, pureVars>>

CleanupOldVersions ==
    \E file_id \in FileIds, keep_versions \in 0..MaxKeep :
        \E st \in cleanup_old_versions(Store, file_id, keep_versions) :
            /\ SetStore(st)
            /\ UNCHANGED <<busVars, next_version_id, clockVars, serverVars, pureVars>>

NextVersions == CreateVersion \/ DeleteVersion \/ CleanupOldVersions

(***************************************************************************)
(* Initial states of the other components                                  *)
(***************************************************************************)
\* the stores, the clock manager and the server after construction; no pure
\* function is being evaluated
Init ==
    /\ metadata_dir = EmptyMap
    /\ versions_dir = EmptyMap
    /\ version_cache = EmptyMap
    /\ next_version_id = 1
    /\ node_clocks = EmptyMap
    /\ global_nodes = {}
    /\ observed = EmptyMap
    /\ lastOp = [op |-> "none"]
    /\ db_nodes = EmptyMap
    /\ db_files = EmptyMap
    /\ db_events = <<>>
    /\ db_conflicts = {}
    /\ file_versions = EmptyMap
    /\ file_content = EmptyMap
    /\ next_uuid = 1
    /\ response = [op |-> "none"]
    /\ uploaded = EmptyMap
    /\ active_connections = {}
    /\ node_connections = EmptyMap
    /\ alive = {}
    /\ delivered = EmptyMap
    /\ tasks = EmptyMap
    /\ args = <<>>
    /\ result = <<>>
    /\ pc = "idle"

SpecVersions ==
    Init /\ [][NextVersions]_vars

(***************************************************************************)
(* Claims about the version store                                          *)
(***************************************************************************)
StoredVersionsOf(file_id) == {v \in DOMAIN metadata_dir : metadata_dir[v].file_id = file_id}

\* C1: every file that has a stored version has exactly one stored version
\* with is_current = true.
C1_ExactlyOneCurrent ==
    \A f \in FileIds :
        StoredVersionsOf(f) # {} =>
            Cardinality({v \in StoredVersionsOf(f) : metadata_dir[v].is_current}) = 1

\* C2: create_version numbers a version one above the largest number stored
\* for the file, so after any creates and deletes no two stored versions of a
\* file share a version_number.
C2_VersionNumbersDistinct ==
    \A f \in FileIds : \A v, w \in StoredVersionsOf(f) :
        v # w => metadata_dir[v].version_number # metadata_dir[w].version_number

(***************************************************************************)
(* VectorClockModel (shared/models.py)                                     *)
(***************************************************************************)
Nodes == {"n1", "n2"}

\* the largest own entry a stored clock is driven to
MaxClock == 3
\* the largest entry of a clock received from a sender
MaxSent == 2

\* VectorClockModel.increment
VC_increment(clocks, node_id) == Put(clocks, node_id, Get(clocks, node_id, 0) + 1)

\* update that stores the received component instead of the maximum
VC_update_overwrite(clocks, other) ==
    [k \in (DOMAIN clocks) \cup (DOMAIN other) |->
        IF k \in DOMAIN other THEN other[k] ELSE clocks[k]]

\* VectorClockModel.update: the maximum of each component of other
VC_update(clocks, other) ==
    [k \in (DOMAIN clocks) \cup (DOMAIN other) |->
        IF k \in DOMAIN other
        THEN (IF Get(clocks, k, 0) >= other[k] THEN Get(clocks, k, 0) ELSE other[k])
        ELSE clocks[k]]

\* VectorClockModel.update_on_receive
VC_update_on_receive(clocks, other, receiving_node) ==
    VC_increment(VC_update(clocks, other), receiving_node)

\* compare that looks at the keys of self alone
compare_own_nodes(self, other) == DOMAIN self

\* the node ids VectorClockModel.compare looks at
compare_all_nodes(self, other) == (DOMAIN self) \cup (DOMAIN other)

\* VectorClockModel.compare
compare(self, other) ==
    LET all_nodes == compare_all_nodes(self, other)
        self_greater == \E n \in all_nodes : Get(self, n, 0) > Get(other, n, 0)
        other_greater == \E n \in all_nodes :
                            /\ ~(Get(self, n, 0) > Get(other, n, 0))
                            /\ Get(other, n, 0) > Get(self, n, 0)
    IN  IF self_greater /\ ~other_greater THEN "after"
        ELSE IF other_greater /\ ~self_greater THEN "before"
        ELSE IF ~self_greater /\ ~other_greater THEN "equal"
        ELSE "concurrent"

\* VectorClockModel.is_concurrent_with
is_concurrent_with(self, other) == compare(self, other) = "concurrent"

\* VectorClock.compare of coordinator/vector_clock.py (ClockComparison values)
VectorClock_compare(self, other) ==
    LET all_nodes == (DOMAIN self) \cup (DOMAIN other)
        self_greater == \E n \in all_nodes : Get(self, n, 0) > Get(other, n, 0)
        other_greater == \E n \in all_nodes :
                            /\ ~(Get(self, n, 0) > Get(other, n, 0))
                            /\ Get(other, n, 0) > Get(self, n, 0)
    IN  IF self_greater /\ ~other_greater THEN "after"
        ELSE IF other_greater /\ ~self_greater THEN "before"
        ELSE IF ~self_greater /\ ~other_greater THEN "equal"
        ELSE "concurrent"

\* the clocks dicts over a set of keys with entries up to max
ClocksOver(keys, max) == UNION {[d -> 0..max] : d \in SUBSET keys}

(***************************************************************************)
(* EnhancedVectorClockManager (server.py)                                  *)
(***************************************************************************)
Manager == [node_clocks |-> node_clocks, global_nodes |-> global_nodes]

\* the clock register_node stores for the node and returns
register_initial_clock(mgr, node_id) ==
    [k \in mgr.global_nodes \cup {node_id} |-> IF k = node_id THEN 1 ELSE 0]

\* a register_node that keeps counting for a node it already knows
register_node_counting(mgr, node_id) ==
    LET own == IF node_id \in DOMAIN mgr.node_clocks
               THEN mgr.node_clocks[node_id][node_id] + 1 ELSE 1
        initial_clock == [k \in mgr.global_nodes \cup {node_id} |->
                            IF k = node_id THEN own ELSE 0]
        with_node == Put(mgr.node_clocks, node_id, initial_clock)
    IN  [node_clocks |->
            [existing_node_id \in DOMAIN with_node |->
                IF existing_node_id # node_id
                THEN Put(with_node[existing_node_id], node_id, 0)
                ELSE with_node[existing_node_id]],
         global_nodes |-> mgr.global_nodes \cup {node_id}]

\* register_node: the manager after the call
register_node(mgr, node_id) ==
    LET initial_clock == register_initial_clock(mgr, node_id)
        with_node == Put(mgr.node_clocks, node_id, initial_clock)
    IN  [node_clocks |->
            [existing_node_id \in DOMAIN with_node |->
                IF existing_node_id # node_id
                THEN Put(with_node[existing_node_id], node_id, 0)
                ELSE with_node[existing_node_id]],
         global_nodes |-> mgr.global_nodes \cup {node_id}]

\* an increment_clock that counts an event of a known node twice
increment_clock_twice(mgr, node_id) ==
    IF node_id \notin DOMAIN mgr.node_clocks
    THEN register_node(mgr, node_id)
    ELSE [mgr EXCEPT !.node_clocks[node_id] = VC_increment(VC_increment(@, node_id), node_id)]

\* increment_clock: the manager after the call
increment_clock(mgr, node_id) ==
    IF node_id \notin DOMAIN mgr.node_clocks
    THEN register_node(mgr, node_id)
    ELSE [mgr EXCEPT !.node_clocks[node_id] = VC_increment(@, node_id)]

\* the manager update_on_receive works on: the receiver is registered first
receiver_registered(mgr, receiving_node) ==
    IF receiving_node \notin DOMAIN mgr.node_clocks
    THEN register_node(mgr, receiving_node)
    ELSE mgr

\* update_on_receive: the manager after the call
update_on_receive(mgr, receiving_node, sender_clock) ==
    LET m1 == receiver_registered(mgr, receiving_node)
    IN  [m1 EXCEPT !.node_clocks[receiving_node] =
                        VC_update_on_receive(@, sender_clock, receiving_node)]

\* get_node_clock: the stored clock of a node
get_node_clock(mgr, node_id) == mgr.node_clocks[node_id]

\* the largest value the own entry of each node has held, after a call
Observe(obs, mgr) ==
    [n \in DOMAIN mgr.node_clocks |->
        IF Get(obs, n, 0) >= Get(mgr.node_clocks[n], n, 0)
        THEN Get(obs, n, 0) ELSE Get(mgr.node_clocks[n], n, 0)]

SetManager(mgr, op) ==
    /\ node_clocks' = mgr.node_clocks
    /\ global_nodes' = mgr.global_nodes
    /\ observed' = Observe(observed, mgr)
    /\ lastOp' = op

\* what a call saw: the node, whether it had a stored clock, that clock, the
\* largest value its own entry held so far, the clock received
Seen(op, node_id, sender_clock) ==
    [op |-> op, node |-> node_id,
     had |-> node_id \in DOMAIN node_clocks,
     prev_clock |-> Get(node_clocks, node_id, EmptyMap),
     before |-> Get(observed, node_id, 0),
     sender |-> sender_clock]

WithinClockBound(mgr) ==
    \A n \in DOMAIN mgr.node_clocks : \A k \in DOMAIN mgr.node_clocks[n] :
        mgr.node_clocks[n][k] <= MaxClock

RegisterNode ==
    \E node_id \in Nodes :
        /\ SetManager(register_node(Manager, node_id), Seen("register", node_id, EmptyMap))
        /\ UNCHANGED <<busVars, versionVars, serverVars, pureVars>>

IncrementClock ==
    \E node_id \in Nodes :
        /\ WithinClockBound(increment_clock(Manager, node_id))
        /\ SetManager(increment_clock(Manager, node_id), Seen("increment", node_id, EmptyMap))
        /\ UNCHANGED <<busVars, versionVars, serverVars, pureVars>>

UpdateOnReceive ==
    \E receiving_node \in Nodes, sender_clock \in ClocksOver(Nodes, MaxSent) :
        /\ WithinClockBound(update_on_receive(Manager, receiving_node, sender_clock))
        /\ SetManager(update_on_receive(Manager, receiving_node, sender_clock),
                      Seen("update_on_receive", receiving_node, sender_clock))
        /\ UNCHANGED <<busVars, versionVars, serverVars, pureVars>>

NextClocks == RegisterNode \/ IncrementClock \/ UpdateOnReceive

SpecClocks ==
    Init /\ [][NextClocks]_vars

(***************************************************************************)
(* compare as a function of two clocks                                     *)
(***************************************************************************)
InitCompare ==
    /\ metadata_dir = EmptyMap
    /\ versions_dir = EmptyMap
    /\ version_cache = EmptyMap
    /\ next_version_id = 1
    /\ node_clocks = EmptyMap
    /\ global_nodes = {}
    /\ observed = EmptyMap
    /\ lastOp = [op |-> "none"]
    /\ db_nodes = EmptyMap
    /\ db_files = EmptyMap
    /\ db_events = <<>>
    /\ db_conflicts = {}
    /\ file_versions = EmptyMap
    /\ file_content = EmptyMap
    /\ next_uuid = 1
    /\ response = [op |-> "none"]
    /\ uploaded = EmptyMap
    /\ active_connections = {}
    /\ node_connections = EmptyMap
    /\ alive = {}
    /\ delivered = EmptyMap
    /\ tasks = EmptyMap
    /\ args \in [a : ClocksOver(Nodes, MaxSent), b : ClocksOver(Nodes, MaxSent)]
    /\ result = <<>>
    /\ pc = "ready"

Compare ==
    /\ pc = "ready"
    /\ result' = [ab |-> compare(args.a, args.b), ba |-> compare(args.b, args.a),
                  vab |-> VectorClock_compare(args.a, args.b),
                  vba |-> VectorClock_compare(args.b, args.a)]
    /\ pc' = "done"
    /\ UNCHANGED <<busVars, args, versionVars, clockVars, serverVars>>

SpecCompare ==
    InitCompare /\ [][Compare]_vars

(***************************************************************************)
(* Claims about vector clocks                                              *)
(***************************************************************************)
Relations == {"equal", "before", "after", "concurrent"}

Mirrored(x, y) ==
    /\ x \in Relations
    /\ y \in Relations
    /\ (x = "equal") <=> (y = "equal")
    /\ (x = "before") <=> (y = "after")
    /\ (x = "after") <=> (y = "before")
    /\ (x = "concurrent") <=> (y = "concurrent")

\* C5: compare returns one of equal, before, after, concurrent, and
\* compare(b, a) is the mirror image of compare(a, b): equal iff equal, before
\* iff after, concurrent iff concurrent (both implementations).
C5_CompareMirrored ==
    pc = "done" => Mirrored(result.ab, result.ba) /\ Mirrored(result.vab, result.vba)

\* two clocks with different key sets, compared as before one way
C5_Witness ==
    /\ pc = "done"
    /\ DOMAIN args.a # DOMAIN args.b
    /\ result.ab = "before"
    /\ result.ba = "after"

Dominates(new, old) == \A k \in DOMAIN old : k \in DOMAIN new /\ new[k] >= old[k]

MaxOf(x, y) == IF x >= y THEN x ELSE y

\* C6 as stated: after update_on_receive(r, s) the stored clock of r
\* dominates s and r's previous clock, and r's own entry is
\* max(old r[r], s[r]) + 1, a missing entry reading as zero.
C6_Original ==
    lastOp.op = "update_on_receive" =>
        /\ Dominates(node_clocks[lastOp.node], lastOp.sender)
        /\ Dominates(node_clocks[lastOp.node], lastOp.prev_clock)
        /\ node_clocks[lastOp.node][lastOp.node] =
              MaxOf(Get(lastOp.prev_clock, lastOp.node, 0),
                    Get(lastOp.sender, lastOp.node, 0)) + 1

\* C6 amended: as above, the old own entry of a receiver that had no stored
\* clock being the 1 its registration gives it.
C6_MergeDominates ==
    lastOp.op = "update_on_receive" =>
        /\ Dominates(node_clocks[lastOp.node], lastOp.sender)
        /\ Dominates(node_clocks[lastOp.node], lastOp.prev_clock)
        /\ node_clocks[lastOp.node][lastOp.node] =
              MaxOf(IF lastOp.had THEN Get(lastOp.prev_clock, lastOp.node, 0) ELSE 1,
                    Get(lastOp.sender, lastOp.node, 0)) + 1

\* a registered receiver merged a clock that was ahead of it in another entry
\* and behind it in its own entry
C6_Witness ==
    /\ lastOp.op = "update_on_receive"
    /\ lastOp.had
    /\ \E k \in DOMAIN lastOp.sender :
          /\ k # lastOp.node
          /\ lastOp.sender[k] > Get(lastOp.prev_clock, k, 0)
          /\ node_clocks[lastOp.node][k] = lastOp.sender[k]
    /\ lastOp.prev_clock[lastOp.node] > Get(lastOp.sender, lastOp.node, 0)
    /\ node_clocks[lastOp.node][lastOp.node] = lastOp.prev_clock[lastOp.node] + 1

\* C7: after increment_clock(n) the own entry of n exceeds every value it
\* held before.
C7_IncrementExceedsObserved ==
    lastOp.op = "increment" =>
        node_clocks[lastOp.node][lastOp.node] > lastOp.before

(***************************************************************************)
(* EnhancedVectorClockManager.get_causal_order                             *)
(***************************************************************************)
\* the timestamps given to events
MaxTime == 3

\* compare_events: the cmp function handed to cmp_to_key
compare_events(e1, e2) ==
    LET relation == compare(e1.vector_clock, e2.vector_clock)
    IN  IF relation = "before" THEN -1
        ELSE IF relation = "after" THEN 1
        ELSE IF e1.timestamp < e2.timestamp THEN -1 ELSE 1

\* K.__lt__ of functools.cmp_to_key: the only comparison list.sort makes
ISLT(x, y) == compare_events(x, y) < 0

\* list.sort of CPython on fewer than 64 elements: count_run finds the run
\* the list starts with (strictly descending runs are reversed), binarysort
\* inserts the remaining elements one by one by binary search.
RECURSIVE run_end(_, _, _)
\* the length of the run that starts the list, having seen n >= 2 elements
run_end(l, n, descending) ==
    IF n >= Len(l) THEN n
    ELSE IF descending
         THEN (IF ISLT(l[n + 1], l[n]) THEN run_end(l, n + 1, descending) ELSE n)
         ELSE (IF ISLT(l[n + 1], l[n]) THEN n ELSE run_end(l, n + 1, descending))

count_run(l) ==
    IF Len(l) = 1 THEN [n |-> 1, descending |-> FALSE]
    ELSE LET descending == ISLT(l[2], l[1])
         IN  [n |-> run_end(l, 2, descending), descending |-> descending]

\* reverse_slice: the first n elements reversed
reverse_run(l, n) == [i \in 1..Len(l) |-> IF i <= n THEN l[n + 1 - i] ELSE l[i]]

RECURSIVE binary_position(_, _, _, _)
\* the 0-based position where binarysort puts pivot among l[lo..r-1]
binary_position(l, pivot, lo, r) ==
    LET p == lo + ((r - lo) \div 2)
        lo2 == IF ISLT(pivot, l[p + 1]) THEN lo ELSE p + 1
        r2 == IF ISLT(pivot, l[p + 1]) THEN p ELSE r
    IN  IF lo2 < r2 THEN binary_position(l, pivot, lo2, r2) ELSE lo2

\* the element at 0-based position start moved down to 0-based position at
move_to(l, start, at) ==
    [i \in 1..Len(l) |->
        IF i - 1 < at \/ i - 1 > start THEN l[i]
        ELSE IF i - 1 = at THEN l[start + 1]
        ELSE l[i - 1]]

RECURSIVE binarysort(_, _)
\* binarysort with the first start elements already in order
binarysort(l, start) ==
    IF start >= Len(l) THEN l
    ELSE binarysort(move_to(l, start, binary_position(l, l[start + 1], 0, start)), start + 1)

list_sort(l) ==
    IF Len(l) < 2 THEN l
    ELSE LET run == count_run(l)
             lo == IF run.descending THEN reverse_run(l, run.n) ELSE l
         IN  binarysort(lo, run.n)

\* get_causal_order: sorted(events, key=cmp_to_key(compare_events))
get_causal_order(events) == list_sort(events)

\* the four events of scenario S6, each with a timestamp
CausalEvents(ts) ==
    <<[event_id |-> "E1", vector_clock |-> [n1 |-> 1], timestamp |-> ts[1]],
      [event_id |-> "E2", vector_clock |-> [n1 |-> 2], timestamp |-> ts[2]],
      [event_id |-> "E3", vector_clock |-> [n2 |-> 1], timestamp |-> ts[3]],
      [event_id |-> "E4", vector_clock |-> [n1 |-> 2, n2 |-> 2], timestamp |-> ts[4]]>>

InitCausal ==
    /\ metadata_dir = EmptyMap
    /\ versions_dir = EmptyMap
    /\ version_cache = EmptyMap
    /\ next_version_id = 1
    /\ node_clocks = EmptyMap
    /\ global_nodes = {}
    /\ observed = EmptyMap
    /\ lastOp = [op |-> "none"]
    /\ db_nodes = EmptyMap
    /\ db_files = EmptyMap
    /\ db_events = <<>>
    /\ db_conflicts = {}
    /\ file_versions = EmptyMap
    /\ file_content = EmptyMap
    /\ next_uuid = 1
    /\ response = [op |-> "none"]
    /\ uploaded = EmptyMap
    /\ active_connections = {}
    /\ node_connections = EmptyMap
    /\ alive = {}
    /\ delivered = EmptyMap
    /\ tasks = EmptyMap
    /\ args \in {[events |-> [i \in 1..4 |-> CausalEvents(ts)[order[i]]]] :
                    ts \in [1..4 -> 1..MaxTime], order \in Permutations_(1..4)}
    /\ result = <<>>
    /\ pc = "ready"

GetCausalOrder ==
    /\ pc = "ready"
    /\ result' = get_causal_order(args.events)
    /\ pc' = "done"
    /\ UNCHANGED <<busVars, args, versionVars, clockVars, serverVars>>

SpecCausal ==
    InitCausal /\ [][GetCausalOrder]_vars

\* C8: in the output of get_causal_order every event whose clock is before
\* the clock of another event comes earlier than it.
C8_CausalOrderRespected ==
    pc = "done" =>
        \A i, j \in 1..Len(result) :
            compare(result[i].vector_clock, result[j].vector_clock) = "before" => i < j

(***************************************************************************)
(* EnhancedVectorClockManager.detect_conflicts                             *)
(***************************************************************************)
\* the longest list of events handed to detect_conflicts
MaxEvents == 3

EventTypes == {"file_modified", "file_deleted"}

EventClocks == {[n1 |-> 1], [n2 |-> 1], [n1 |-> 1, n2 |-> 1]}

\* detect_conflicts that does not filter the events by file
detect_all_events(file_id, events) == events

\* file_events = [e for e in events if e.file_id == file_id]
detect_file_events(file_id, events) == SelectSeq(events, LAMBDA e : e.file_id = file_id)

\* the condition under which a pair of file events is reported
is_conflict(event1, event2) ==
    /\ event1.event_type = "file_modified"
    /\ event2.event_type = "file_modified"
    /\ is_concurrent_with(event1.vector_clock, event2.vector_clock)

RECURSIVE detect_loop(_, _, _, _)
\* the two nested loops, from the pair (i, j)
detect_loop(file_id, file_events, i, j) ==
    IF i > Len(file_events) THEN <<>>
    ELSE IF j > Len(file_events) THEN detect_loop(file_id, file_events, i + 1, i + 2)
    ELSE (IF is_conflict(file_events[i], file_events[j])
          THEN <<[file_id |-> file_id,
                  event1 |-> file_events[i],
                  event2 |-> file_events[j],
                  type |-> "concurrent_modification",
                  nodes |-> <<file_events[i].node_id, file_events[j].node_id>>]>>
          ELSE <<>>) \o detect_loop(file_id, file_events, i, j + 1)

detect_conflicts(file_id, events) ==
    detect_loop(file_id, detect_file_events(file_id, events), 1, 2)

\* the events of a window: the records of the events table have distinct ids
EventWindows ==
    UNION {{[i \in 1..n |-> [event_id |-> i,
                             event_type |-> w[i].event_type,
                             node_id |-> w[i].node_id,
                             file_id |-> w[i].file_id,
                             vector_clock |-> w[i].vector_clock]] :
              w \in [1..n -> [event_type : EventTypes, node_id : {"n1"},
                              file_id : FileIds, vector_clock : EventClocks]]} :
           n \in 0..MaxEvents}

InitDetect ==
    /\ metadata_dir = EmptyMap
    /\ versions_dir = EmptyMap
    /\ version_cache = EmptyMap
    /\ next_version_id = 1
    /\ node_clocks = EmptyMap
    /\ global_nodes = {}
    /\ observed = EmptyMap
    /\ lastOp = [op |-> "none"]
    /\ db_nodes = EmptyMap
    /\ db_files = EmptyMap
    /\ db_events = <<>>
    /\ db_conflicts = {}
    /\ file_versions = EmptyMap
    /\ file_content = EmptyMap
    /\ next_uuid = 1
    /\ response = [op |-> "none"]
    /\ uploaded = EmptyMap
    /\ active_connections = {}
    /\ node_connections = EmptyMap
    /\ alive = {}
    /\ delivered = EmptyMap
    /\ tasks = EmptyMap
    /\ args \in [file_id : {"f1"}, events : EventWindows]
    /\ result = <<>>
    /\ pc = "ready"

DetectConflicts ==
    /\ pc = "ready"
    /\ result' = detect_conflicts(args.file_id, args.events)
    /\ pc' = "done"
    /\ UNCHANGED <<busVars, args, versionVars, clockVars, serverVars>>

SpecDetect ==
    InitDetect /\ [][DetectConflicts]_vars

\* the entries of the result that refer to the two events
EntriesFor(e1, e2) ==
    {k \in 1..Len(result) :
        {result[k].event1.event_id, result[k].event2.event_id} = {e1.event_id, e2.event_id}}

\* C9: detect_conflicts returns exactly one entry for each unordered pair of
\* file_modified events of the file whose clocks are concurrent, and no
\* entry for any other pair of events.
C9_ConflictsExact ==
    pc = "done" =>
        /\ \A i, j \in 1..Len(args.events) :
              i < j =>
                 Cardinality(EntriesFor(args.events[i], args.events[j])) =
                    IF /\ args.events[i].file_id = args.file_id
                       /\ args.events[j].file_id = args.file_id
                       /\ args.events[i].event_type = "file_modified"
                       /\ args.events[j].event_type = "file_modified"
                       /\ compare(args.events[i].vector_clock,
                                  args.events[j].vector_clock) = "concurrent"
                    THEN 1 ELSE 0
        /\ \A k \in 1..Len(result) :
              \E i, j \in 1..Len(args.events) :
                 /\ i < j
                 /\ result[k].event1 = args.events[i]
                 /\ result[k].event2 = args.events[j]

\* a window with a concurrent pair of the file, a pair of another file and
\* an ordered pair: one entry is returned
C9_Witness ==
    /\ pc = "done"
    /\ Len(args.events) = 3
    /\ Len(result) = 1
    /\ \E i \in 1..3 : args.events[i].file_id # args.file_id
    /\ \E i, j \in 1..3 :
          /\ args.events[i].file_id = args.file_id
          /\ args.events[j].file_id = args.file_id
          /\ compare(args.events[i].vector_clock, args.events[j].vector_clock) = "concurrent"

(***************************************************************************)
(* AdvancedDeltaSync (server.py)                                           *)
(***************************************************************************)
\* AdvancedDeltaSync.CHUNK_SIZE is 4096; the model cuts chunks of 2 bytes
CHUNK_SIZE == 2
\* the longest byte string handed to the delta engine
MaxLen == 4

ByteValues == {97, 98}

ByteStrings == UNION {[1..n -> ByteValues] : n \in 0..MaxLen}

\* data[i:i + CHUNK_SIZE] for i in range(0, len(data), CHUNK_SIZE)
ChunkCount(data) == (Len(data) + CHUNK_SIZE - 1) \div CHUNK_SIZE

ChunkOffset(index) == index * CHUNK_SIZE

ChunkData(data, index) ==
    SubSeq(data, ChunkOffset(index) + 1,
           IF ChunkOffset(index) + CHUNK_SIZE <= Len(data)
           THEN ChunkOffset(index) + CHUNK_SIZE ELSE Len(data))

RECURSIVE rolling(_, _, _, _)
\* the loop of calculate_rolling_hash from position i with sums a and b
rolling(data, i, a, b) ==
    IF i > Len(data) THEN (b * 65536) + a
    ELSE rolling(data, i + 1, (a + data[i]) % 65521, (b + ((a + data[i]) % 65521)) % 65521)

calculate_rolling_hash(data) == rolling(data, 1, 1, 0)

calculate_strong_hash(data) == <<"sha256", data>>

\* create_signature: one ChunkSignature per chunk
create_signature(data) ==
    [k \in 1..ChunkCount(data) |->
        [index |-> k - 1,
         offset |-> ChunkOffset(k - 1),
         size |-> Len(ChunkData(data, k - 1)),
         weak_hash |-> calculate_rolling_hash(ChunkData(data, k - 1)),
         strong_hash |-> calculate_strong_hash(ChunkData(data, k - 1))]]

\* the keys of old_sig_map
old_sig_map(old_content) ==
    {create_signature(old_content)[k].strong_hash : k \in 1..ChunkCount(old_content)}

\* server.py with FileChunk among the names it imports
FileChunk_is_imported == TRUE

\* server.py imports ChunkSignature, FileDelta and DeltaSyncMetrics from
\* shared.models but not FileChunk, the name create_content_delta calls to
\* build a chunk to add: evaluating it raises NameError.
FileChunk_is_defined == FALSE

\* the indices of the chunks of new_content found in old_sig_map
unchanged_chunks(old_content, new_content) ==
    SelectSeq([k \in 1..ChunkCount(new_content) |-> k - 1],
              LAMBDA i : calculate_strong_hash(ChunkData(new_content, i))
                            \in old_sig_map(old_content))

\* the indices of the chunks of new_content not found in old_sig_map
added_chunks(old_content, new_content) ==
    SelectSeq([k \in 1..ChunkCount(new_content) |-> k - 1],
              LAMBDA i : calculate_strong_hash(ChunkData(new_content, i))
                            \notin old_sig_map(old_content))

\* bandwidth_saved counted as one full chunk per unchanged chunk
SumSizes_full(data, indices) == Len(indices) * CHUNK_SIZE

RECURSIVE SumSizes(_, _)
SumSizes(data, indices) ==
    IF indices = <<>> THEN 0
    ELSE Len(ChunkData(data, Head(indices))) + SumSizes(data, Tail(indices))

\* create_content_delta: the FileDelta, or the exception raised.
\* compression_ratio is bandwidth_saved / len(new_content) * 100, kept as the
\* fraction num/den.
create_content_delta(old_content, new_content, file_id) ==
    LET added == added_chunks(old_content, new_content)
        unchanged == unchanged_chunks(old_content, new_content)
        bandwidth_saved == SumSizes(new_content, unchanged)
    IN  IF added # <<>> /\ ~FileChunk_is_defined
        THEN [raised |-> TRUE, error |-> "NameError"]
        ELSE [raised |-> FALSE,
              file_id |-> file_id,
              old_hash |-> IF old_content # <<>>
                           THEN calculate_strong_hash(old_content) ELSE <<"None">>,
              new_hash |-> calculate_strong_hash(new_content),
              old_size |-> Len(old_content),
              new_size |-> Len(new_content),
              chunks_to_add |->
                  [k \in 1..Len(added) |->
                      [index |-> added[k],
                       offset |-> ChunkOffset(added[k]),
                       size |-> Len(ChunkData(new_content, added[k])),
                       hash |-> calculate_strong_hash(ChunkData(new_content, added[k])),
                       weak_hash |-> calculate_rolling_hash(ChunkData(new_content, added[k])),
                       data |-> ChunkData(new_content, added[k]),
                       is_new |-> TRUE]],
              chunks_to_remove |-> <<>>,
              chunks_unchanged |-> unchanged,
              total_chunks |-> ChunkCount(new_content),
              bandwidth_saved |-> bandwidth_saved,
              compression_ratio |->
                  IF new_content # <<>>
                  THEN [num |-> bandwidth_saved * 100, den |-> Len(new_content)]
                  ELSE [num |-> 0, den |-> 1]]

RECURSIVE concat_chunks(_)
concat_chunks(chunks) ==
    IF chunks = <<>> THEN <<>> ELSE Head(chunks).data \o concat_chunks(Tail(chunks))

\* apply_delta: the data of chunks_to_add, one after the other
apply_delta(old_content, delta) == concat_chunks(delta.chunks_to_add)

InitDelta ==
    /\ metadata_dir = EmptyMap
    /\ versions_dir = EmptyMap
    /\ version_cache = EmptyMap
    /\ next_version_id = 1
    /\ node_clocks = EmptyMap
    /\ global_nodes = {}
    /\ observed = EmptyMap
    /\ lastOp = [op |-> "none"]
    /\ db_nodes = EmptyMap
    /\ db_files = EmptyMap
    /\ db_events = <<>>
    /\ db_conflicts = {}
    /\ file_versions = EmptyMap
    /\ file_content = EmptyMap
    /\ next_uuid = 1
    /\ response = [op |-> "none"]
    /\ uploaded = EmptyMap
    /\ active_connections = {}
    /\ node_connections = EmptyMap
    /\ alive = {}
    /\ delivered = EmptyMap
    /\ tasks = EmptyMap
    /\ args \in [X : ByteStrings, Y : ByteStrings]
    /\ result = <<>>
    /\ pc = "ready"

CreateContentDelta ==
    /\ pc = "ready"
    /\ result' = [delta |-> create_content_delta(args.X, args.Y, "f1")]
    /\ pc' = IF result'.delta.raised THEN "raised" ELSE "delta"
    /\ UNCHANGED <<busVars, args, versionVars, clockVars, serverVars>>

ApplyDelta ==
    /\ pc = "delta"
    /\ result' = [delta |-> result.delta, bytes |-> apply_delta(args.X, result.delta)]
    /\ pc' = "done"
    /\ UNCHANGED <<busVars, args, versionVars, clockVars, serverVars>>

NextDelta == CreateContentDelta \/ ApplyDelta

SpecDelta ==
    InitDelta /\ [][NextDelta]_vars

\* C3: apply_delta(X, create_content_delta(X, Y)) returns exactly Y.
C3_DeltaRoundTrip ==
    pc = "done" => result.bytes = args.Y

(***************************************************************************)
(* FileChunk.convert_data (models.py): the payload of a chunk arrives as   *)
(* text; a text is a sequence of ASCII codes.                              *)
(***************************************************************************)
HexDigits == <<48, 49, 50, 51, 52, 53, 54, 55, 56, 57, 97, 98, 99, 100, 101, 102>>

\* bytes.hex()
RECURSIVE bytes_hex(_)
bytes_hex(data) ==
    IF data = <<>> THEN <<>>
    ELSE <<HexDigits[(Head(data) \div 16) + 1], HexDigits[(Head(data) % 16) + 1]>>
            \o bytes_hex(Tail(data))

\* the value of a hexadecimal digit, 16 for any other character
hex_value(c) ==
    IF c >= 48 /\ c <= 57 THEN c - 48
    ELSE IF c >= 97 /\ c <= 102 THEN c - 87
    ELSE IF c >= 65 /\ c <= 70 THEN c - 55
    ELSE 16

RECURSIVE hex_pairs(_)
hex_pairs(text) ==
    IF text = <<>> THEN <<>>
    ELSE <<(hex_value(text[1]) * 16) + hex_value(text[2])>> \o hex_pairs(SubSeq(text, 3, Len(text)))

\* bytes.fromhex: the bytes, or ValueError
bytes_fromhex(text) ==
    IF Len(text) % 2 = 0 /\ \A i \in 1..Len(text) : hex_value(text[i]) < 16
    THEN [ok |-> TRUE, bytes |-> hex_pairs(text)]
    ELSE [ok |-> FALSE, bytes |-> <<>>]

\* the base64 digit of a 6-bit value
b64_char(v) ==
    IF v < 26 THEN 65 + v
    ELSE IF v < 52 THEN 97 + (v - 26)
    ELSE IF v < 62 THEN 48 + (v - 52)
    ELSE IF v = 62 THEN 43 ELSE 47

\* table_a2b_base64: the 6-bit value of a base64 digit, 64 for any other character
b64_value(c) ==
    IF c >= 65 /\ c <= 90 THEN c - 65
    ELSE IF c >= 97 /\ c <= 122 THEN c - 71
    ELSE IF c >= 48 /\ c <= 57 THEN c + 4
    ELSE IF c = 43 THEN 62
    ELSE IF c = 47 THEN 63
    ELSE 64

BASE64_PAD == 61

\* base64.b64encode
RECURSIVE b64encode(_)
b64encode(data) ==
    IF data = <<>> THEN <<>>
    ELSE IF Len(data) = 1
    THEN <<b64_char(data[1] \div 4), b64_char((data[1] % 4) * 16), BASE64_PAD, BASE64_PAD>>
    ELSE IF Len(data) = 2
    THEN <<b64_char(data[1] \div 4),
           b64_char(((data[1] % 4) * 16) + (data[2] \div 16)),
           b64_char((data[2] % 16) * 4), BASE64_PAD>>
    ELSE <<b64_char(data[1] \div 4),
           b64_char(((data[1] % 4) * 16) + (data[2] \div 16)),
           b64_char(((data[2] % 16) * 4) + (data[3] \div 64)),
           b64_char(data[3] % 64)>> \o b64encode(SubSeq(data, 4, Len(data)))

RECURSIVE a2b_base64(_, _, _, _, _, _)
\* binascii.a2b_base64 without strict_mode, from character i on: characters
\* outside the alphabet are skipped, a complete pad sequence ends the input,
\* and digits left over at the end are an error
a2b_base64(text, i, quad_pos, leftchar, pads, bin_data) ==
    IF i > Len(text)
    THEN [ok |-> quad_pos = 0, bytes |-> bin_data]
    ELSE IF text[i] = BASE64_PAD
    THEN IF quad_pos >= 2 /\ quad_pos + pads + 1 >= 4
         THEN [ok |-> TRUE, bytes |-> bin_data]
         ELSE a2b_base64(text, i + 1, quad_pos, leftchar,
                         IF quad_pos >= 2 THEN pads + 1 ELSE pads, bin_data)
    ELSE IF b64_value(text[i]) >= 64
    THEN a2b_base64(text, i + 1, quad_pos, leftchar, pads, bin_data)
    ELSE IF quad_pos = 0
    THEN a2b_base64(text, i + 1, 1, b64_value(text[i]), 0, bin_data)
    ELSE IF quad_pos = 1
    THEN a2b_base64(text, i + 1, 2, b64_value(text[i]) % 16, 0,
                    Append(bin_data, (leftchar * 4) + (b64_value(text[i]) \div 16)))
    ELSE IF quad_pos = 2
    THEN a2b_base64(text, i + 1, 3, b64_value(text[i]) % 4, 0,
                    Append(bin_data, (leftchar * 16) + (b64_value(text[i]) \div 4)))
    ELSE a2b_base64(text, i + 1, 0, 0, 0,
                    Append(bin_data, (leftchar * 64) + b64_value(text[i])))

\* base64.b64decode: the bytes, or binascii.Error
b64decode(text) == a2b_base64(text, 1, 0, 0, 0, <<>>)

\* convert_data on a str: base64 first, then hex, then the text as UTF-8
convert_data(v) ==
    IF b64decode(v).ok THEN b64decode(v).bytes
    ELSE IF bytes_fromhex(v).ok THEN bytes_fromhex(v).bytes
    ELSE v

(***************************************************************************)
(* CoordinatorServer (server.py): the register, upload, download and       *)
(* delete requests.  A request is handled to its end before the next one   *)
(* starts, which is one of the schedules the event loop can produce.       *)
(***************************************************************************)
\* the longest payload a client uploads
MaxPayload == 2
\* a request that appends to the event log is taken while the log holds fewer
\* events than this
MaxLog == 2

ServerFiles == {"f1"}

\* the nodes in the order of ORDER BY node_id
NodeOrder == <<"n1", "n2", "n3">>

\* the payloads uploaded: runs of the letter a
Payloads == UNION {[1..n -> {97}] : n \in 0..MaxPayload}

Encodings == {"hex", "base64"}

encode(data, encoding) == IF encoding = "hex" THEN bytes_hex(data) ELSE b64encode(data)

RECURSIVE client_chunks(_, _, _)
\* the chunks a client sends: the payload cut every chunk_size bytes, each
\* piece encoded on its own
client_chunks(data, encoding, chunk_size) ==
    IF data = <<>> THEN <<>>
    ELSE IF Len(data) <= chunk_size THEN <<[data |-> encode(data, encoding)]>>
    ELSE <<[data |-> encode(SubSeq(data, 1, chunk_size), encoding)]>>
            \o client_chunks(SubSeq(data, chunk_size + 1, Len(data)), encoding, chunk_size)

RECURSIVE join_chunks(_)
\* b''.join(chunk.data for chunk in request.chunks if chunk.data)
join_chunks(chunks) ==
    IF chunks = <<>> THEN <<>>
    ELSE convert_data(Head(chunks).data) \o join_chunks(Tail(chunks))

\* the state the request handlers work on
Server ==
    [mgr |-> Manager,
     db_nodes |-> db_nodes, db_files |-> db_files,
     db_events |-> db_events, db_conflicts |-> db_conflicts,
     file_versions |-> file_versions, file_content |-> file_content,
     next_uuid |-> next_uuid]

\* SimpleFileManager.create_version, with version_id the uuid drawn
SimpleFileManager_create_version(srv, file_id, content, owner_node, metadata) ==
    [srv EXCEPT
        !.file_content = Put(@, srv.next_uuid, content),
        !.file_versions =
            Put(@, file_id,
                Append(Get(@, file_id, <<>>),
                       [version_id |-> srv.next_uuid,
                        content_size |-> Len(content),
                        created_by |-> owner_node,
                        metadata |-> metadata])),
        !.next_uuid = @ + 1]

\* SimpleFileManager.get_current_version is not None
has_current_version(srv, file_id) ==
    file_id \in DOMAIN srv.file_versions /\ srv.file_versions[file_id] # <<>>

\* SimpleFileManager.get_current_version: the last version of the list
get_current_version(srv, file_id) ==
    srv.file_versions[file_id][Len(srv.file_versions[file_id])]

\* SimpleFileManager.get_version_content is not None
has_version_content(srv, version_id) == version_id \in DOMAIN srv.file_content

get_version_content(srv, version_id) == srv.file_content[version_id]

\* DatabaseManager.register_node: INSERT OR REPLACE
db_register_node(srv, node_info) ==
    [srv EXCEPT !.db_nodes = Put(@, node_info.node_id, node_info)]

\* DatabaseManager.get_online_nodes: ORDER BY node_id
get_online_nodes(srv) ==
    SelectSeq(NodeOrder, LAMBDA n : n \in DOMAIN srv.db_nodes
                                    /\ srv.db_nodes[n].status = "online")

\* DatabaseManager.store_file: INSERT OR REPLACE
store_file(srv, file_metadata) ==
    [srv EXCEPT !.db_files = Put(@, file_metadata.file_id, file_metadata)]

\* DatabaseManager.record_event: INSERT
record_event(srv, event) == [srv EXCEPT !.db_events = Append(@, event)]

\* SyncEvent(event_id=str(uuid.uuid4()), ...)
SyncEvent(srv, event_type, node_id, file_id, data, vector_clock) ==
    [event_id |-> srv.next_uuid, event_type |-> event_type, node_id |-> node_id,
     file_id |-> file_id, data |-> data, vector_clock |-> vector_clock]

\* broadcast_event of a new event: it is recorded; no socket is connected
broadcast_event(srv, event_type, node_id, file_id, data, vector_clock) ==
    [record_event(srv, SyncEvent(srv, event_type, node_id, file_id, data, vector_clock))
        EXCEPT !.next_uuid = @ + 1]

\* for progress in [25, 50, 75]
sync_steps_shuffled == <<50, 25, 75>>

sync_steps == <<25, 50, 75>>

\* the members of SyncEventType
SyncEventType ==
    {"FILE_CREATED", "FILE_MODIFIED", "FILE_DELETED", "FILE_MOVED", "CONFLICT_DETECTED",
     "CONFLICT_RESOLVED", "NODE_JOINED", "NODE_LEFT", "SYNC_STARTED", "SYNC_COMPLETED",
     "NODE_STATUS_CHANGE", "VECTOR_CLOCK_UPDATE", "FILE_SYNC_PROGRESS"}

\* the progress events of a replication: 25, 50, 75
RECURSIVE sync_progress(_, _, _, _)
sync_progress(srv, file_metadata, node_id, steps) ==
    IF steps = <<>> THEN srv
    ELSE sync_progress(
            broadcast_event(srv, "file_sync_progress", node_id, file_metadata.file_id,
                            [action |-> "syncing", target_node |-> node_id,
                             source_node |-> file_metadata.owner_node,
                             progress |-> Head(steps)],
                            [n \in {node_id} |-> 1]),
            file_metadata, node_id, Tail(steps))

\* the id of the replica a node gets
replica_file_id(file_id, node_id) == file_id \o "_replica_" \o node_id

\* the first event of a replication
sync_started(srv, file_metadata, node_id) ==
    broadcast_event(srv, "file_sync_progress", node_id, file_metadata.file_id,
                    [action |-> "sync_started", target_node |-> node_id,
                     source_node |-> file_metadata.owner_node, progress |-> 0],
                    [n \in {node_id} |-> 1])

\* the metadata of the replica a node gets
replica_metadata(file_metadata, node_id) ==
    [file_metadata EXCEPT
        !.file_id = replica_file_id(file_metadata.file_id, node_id),
        !.owner_node = node_id,
        !.is_deleted = FALSE]

\* the version of the replica
replica_version(srv, file_metadata, file_data, node_id) ==
    SimpleFileManager_create_version(
        srv, replica_metadata(file_metadata, node_id).file_id, file_data, node_id,
        [replicated_from |-> file_metadata.owner_node, is_replica |-> TRUE,
         original_file_id |-> file_metadata.file_id])

\* the last event of a replication; version_id is the uuid create_version drew
sync_completed(srv, file_metadata, file_data, node_id) ==
    broadcast_event(srv, "sync_completed", node_id, file_metadata.file_id,
                    [action |-> "sync_completed", target_node |-> node_id,
                     source_node |-> file_metadata.owner_node,
                     bytes_transferred |-> Len(file_data),
                     version_id |-> srv.next_uuid - 1,
                     replica_file_id |-> replica_metadata(file_metadata, node_id).file_id],
                    [n \in {node_id} |-> 1])

\* the body of the loop of _propagate_file_to_nodes for one node
propagate_to_node(srv, file_metadata, file_data, node_id) ==
    LET started == sync_started(srv, file_metadata, node_id)
        progressed == sync_progress(started, file_metadata, node_id, sync_steps)
        stored == store_file(progressed, replica_metadata(file_metadata, node_id))
        created == replica_version(stored, file_metadata, file_data, node_id)
    IN  sync_completed(created, file_metadata, file_data, node_id)

RECURSIVE propagate_loop(_, _, _, _)
propagate_loop(srv, file_metadata, file_data, nodes) ==
    IF nodes = <<>> THEN srv
    ELSE propagate_loop(
            IF Head(nodes) # file_metadata.owner_node
            THEN propagate_to_node(srv, file_metadata, file_data, Head(nodes))
            ELSE srv,
            file_metadata, file_data, Tail(nodes))

\* _propagate_file_to_nodes
propagate_file_to_nodes(srv, file_metadata, file_data) ==
    propagate_loop(srv, file_metadata, file_data, get_online_nodes(srv))

\* POST /api/register: the server after the request and the response
api_register_node(srv, node_id) ==
    LET node_info == [node_id |-> node_id, status |-> "online",
                      vector_clock |-> [n \in {node_id} |-> 1]]
        registered == db_register_node([srv EXCEPT !.mgr = register_node(@, node_id)],
                                       node_info)
    IN  [srv |-> broadcast_event(registered, "node_status_change", node_id, "None",
                                 [action |-> "registered", status |-> "online"],
                                 node_info.vector_clock),
         response |-> [op |-> "register_node", status_code |-> 200, node_id |-> node_id,
                       vector_clock |-> node_info.vector_clock]]

\* the file data upload_file reconstructs from the chunks of the request
upload_file_data(request) == join_chunks(request.chunks)

\* the old content upload_file hands to the delta engine
upload_old_content(srv, request) ==
    IF request.use_delta_sync /\ has_current_version(srv, request.file_id)
       /\ has_version_content(srv, get_current_version(srv, request.file_id).version_id)
    THEN get_version_content(srv, get_current_version(srv, request.file_id).version_id)
    ELSE <<>>

\* AdvancedDeltaSync.get_delta_metrics, without the timings
get_delta_metrics(delta) ==
    [file_id |-> delta.file_id,
     original_size |-> delta.new_size,
     compressed_size |-> delta.new_size - delta.bandwidth_saved,
     bandwidth_saved |-> delta.bandwidth_saved,
     chunks_total |-> delta.total_chunks,
     chunks_unchanged |-> Len(delta.chunks_unchanged),
     chunks_modified |-> Len(delta.chunks_to_add),
     chunks_new |-> Len(delta.chunks_to_add),
     compression_ratio |-> delta.compression_ratio]

\* POST /api/files/upload up to the call of _propagate_file_to_nodes
upload_file_accept(srv, request) ==
    LET clocked == [srv EXCEPT !.mgr = increment_clock(@, request.owner_node)]
        current_clock == clocked.mgr.node_clocks[request.owner_node]
        file_data == upload_file_data(request)
        delta == create_content_delta(upload_old_content(clocked, request), file_data,
                                      request.file_id)
        file_metadata == [file_id |-> request.file_id,
                          size |-> request.size,
                          hash |-> calculate_content_hash(file_data),
                          owner_node |-> request.owner_node,
                          version |-> request.version,
                          vector_clock |-> current_clock,
                          is_deleted |-> FALSE]
        versioned ==
            SimpleFileManager_create_version(
                clocked, request.file_id, file_data, request.owner_node,
                [uploaded_via |-> "api", delta_sync_used |-> request.use_delta_sync,
                 bandwidth_saved |-> delta.bandwidth_saved,
                 compression_ratio |-> delta.compression_ratio])
        event_data == [action |-> "uploaded",
                       file_size |-> request.size,
                       file_hash |-> file_metadata.hash,
                       version_id |-> clocked.next_uuid,
                       delta_sync_used |-> request.use_delta_sync,
                       bandwidth_saved |-> delta.bandwidth_saved,
                       compression_ratio |-> delta.compression_ratio,
                       chunks_total |-> delta.total_chunks,
                       chunks_unchanged |-> Len(delta.chunks_unchanged),
                       chunks_transferred |-> Len(delta.chunks_to_add)]
        broadcast ==
            broadcast_event(store_file(versioned, file_metadata),
                            "file_modified", request.owner_node, request.file_id,
                            event_data, current_clock)
    IN  IF delta.raised
        THEN [raised |-> TRUE, srv |-> clocked,
              file_metadata |-> file_metadata, file_data |-> file_data,
              response |-> [op |-> "upload_file", status_code |-> 500,
                            file_id |-> request.file_id, detail |-> delta.error]]
        ELSE [raised |-> FALSE, srv |-> broadcast,
              file_metadata |-> file_metadata, file_data |-> file_data,
              versioned |-> versioned, event_data |-> event_data,
              response |-> [op |-> "upload_file", status_code |-> 200,
                            file_id |-> request.file_id,
                            version_id |-> clocked.next_uuid,
                            delta_metrics |-> get_delta_metrics(delta),
                            vector_clock |-> current_clock]]

\* POST /api/files/upload: the server after the request and the response
upload_file(srv, request) ==
    LET accepted == upload_file_accept(srv, request)
    IN  [srv |-> IF accepted.raised THEN accepted.srv
                 ELSE propagate_file_to_nodes(accepted.srv, accepted.file_metadata,
                                              accepted.file_data),
         response |-> accepted.response]

\* GET /api/files/{file_id}/content: the response
get_file_content(srv, file_id) ==
    IF /\ has_current_version(srv, file_id)
       /\ has_version_content(srv, get_current_version(srv, file_id).version_id)
       /\ file_id \in DOMAIN srv.db_files
    THEN [op |-> "get_file_content", status_code |-> 200, file_id |-> file_id,
          content |-> bytes_hex(get_version_content(
                                    srv, get_current_version(srv, file_id).version_id)),
          version_id |-> get_current_version(srv, file_id).version_id]
    ELSE [op |-> "get_file_content", status_code |-> 500, file_id |-> file_id]

\* DELETE /api/files/{file_id}: the server after the request and the response
delete_file(srv, file_id, node_id) ==
    IF node_id = "None" \/ file_id \notin DOMAIN srv.db_files
    THEN [srv |-> srv,
          response |-> [op |-> "delete_file", status_code |-> 500, file_id |-> file_id]]
    ELSE [srv |->
            broadcast_event(
                [store_file(srv, [srv.db_files[file_id] EXCEPT !.is_deleted = TRUE])
                    EXCEPT !.file_versions = Remove(@, file_id)],
                "file_deleted", node_id, file_id,
                [action |-> "deleted", deleted_by |-> node_id],
                [n \in {node_id} |-> 1]),
          response |-> [op |-> "delete_file", status_code |-> 200, file_id |-> file_id]]

\* the server after a request, and the response sent
SetServer(out, op) ==
    /\ SetManager(out.srv.mgr, op)
    /\ db_nodes' = out.srv.db_nodes
    /\ db_files' = out.srv.db_files
    /\ db_events' = out.srv.db_events
    /\ db_conflicts' = out.srv.db_conflicts
    /\ file_versions' = out.srv.file_versions
    /\ file_content' = out.srv.file_content
    /\ next_uuid' = out.srv.next_uuid
    /\ response' = out.response

WithinLog(out) ==
    /\ Len(out.srv.db_events) > Len(db_events) => Len(db_events) < MaxLog
    /\ WithinClockBound(out.srv.mgr)

UploadRequests ==
    {[file_id |-> file_id, owner_node |-> owner_node, payload |-> payload,
      encoding |-> encoding, size |-> Len(payload), version |-> 1,
      chunks |-> client_chunks(payload, encoding, chunk_size),
      use_delta_sync |-> use_delta_sync] :
        file_id \in ServerFiles, owner_node \in Nodes, payload \in Payloads,
        encoding \in Encodings, chunk_size \in 1..MaxPayload, use_delta_sync \in BOOLEAN}

ApiRegisterNode ==
    \E node_id \in Nodes :
        \E out \in {api_register_node(Server, node_id)} :
            /\ WithinLog(out)
            /\ SetServer(out, Seen("register", node_id, EmptyMap))
        /\ UNCHANGED <<busVars, uploaded, versionVars, pureVars>>

ApiUploadFile ==
    \E request \in UploadRequests :
        \E out \in {upload_file(Server, request)} :
            /\ WithinLog(out)
            /\ SetServer(out, Seen("increment", request.owner_node, EmptyMap))
        /\ uploaded' = Put(uploaded, request.file_id, request.payload)
        /\ UNCHANGED <<busVars, versionVars, pureVars>>

ApiGetFileContent ==
    \E file_id \in ServerFiles :
        /\ response' = get_file_content(Server, file_id)
        /\ UNCHANGED <<busVars, db_nodes, db_files, db_events, db_conflicts, file_versions,
                       file_content, next_uuid, uploaded, clockVars, versionVars, pureVars>>

ApiDeleteFile ==
    \E file_id \in ServerFiles, node_id \in Nodes \cup {"None"} :
        \E out \in {delete_file(Server, file_id, node_id)} :
            /\ WithinLog(out)
            /\ SetServer(out, lastOp)
        /\ uploaded' = Remove(uploaded, file_id)
        /\ UNCHANGED <<busVars, versionVars, pureVars>>

NextServer == ApiRegisterNode \/ ApiUploadFile \/ ApiGetFileContent \/ ApiDeleteFile

SpecServer ==
    Init /\ [][NextServer]_vars

FileModifiedEvents ==
    {i \in 1..Len(db_events) : db_events[i].event_type = "file_modified"}

\* two uploads of one file by two nodes whose clocks are concurrent
ConcurrentUploads(i, j) ==
    /\ i < j
    /\ db_events[i].file_id = db_events[j].file_id
    /\ db_events[i].node_id # db_events[j].node_id
    /\ compare(db_events[i].vector_clock, db_events[j].vector_clock) = "concurrent"

\* C10: when two nodes whose vector clocks are concurrent each upload the same
\* file_id, the event log holds a conflict_detected event for that file and
\* the conflicts table holds a record for it.
C10_ConcurrentUploadsConflict ==
    \A i, j \in FileModifiedEvents :
        ConcurrentUploads(i, j) =>
            /\ \E k \in 1..Len(db_events) :
                /\ db_events[k].event_type = "conflict_detected"
                /\ db_events[k].file_id = db_events[i].file_id
            /\ \E c \in db_conflicts : c.file_id = db_events[i].file_id

(***************************************************************************)
(* CoordinatorServer.broadcast_event and the websocket handlers, coroutine *)
(* by coroutine.  A coroutine runs from one await to the next without      *)
(* another one running in between; at an await (the INSERT of record_event,*)
(* a send_text) any other coroutine may run.                               *)
(***************************************************************************)
\* how many file_change messages the nodes send in one run
MaxBroadcasts == 2

\* a socket is one connection: it connects once in a run
Dashboards == {"d1", "d2"}

\* the socket of the subscription of a node
NodeSocket(node_id) == "ws_" \o node_id

Range(f) == {f[x] : x \in DOMAIN f}

\* the state broadcast_event works on
Bus ==
    [db_events |-> db_events, active_connections |-> active_connections,
     node_connections |-> node_connections, alive |-> alive, delivered |-> delivered]

\* the subscriptions an event is owed to: the dashboard sockets and the
\* sockets of the other nodes that are subscribed and connected
live_subscriptions(bus, event) ==
    {c \in bus.active_connections : c \in bus.alive}
        \cup {bus.node_connections[k] :
                k \in {n \in DOMAIN bus.node_connections :
                          n # event.node_id /\ bus.node_connections[n] \in bus.alive}}

\* broadcast_event entered: the coroutine waits for record_event
broadcast_call(bus, event) ==
    [event |-> event, stage |-> "record", recorded |-> FALSE, started |-> FALSE,
     snapshot |-> {}, visited |-> {}, disconnected |-> {},
     steady |-> live_subscriptions(bus, event)]

\* record_event: the INSERT, which fails on a storage error or on an event_id
\* the table already holds; broadcast_event does not look at what it returns
bus_record_event(bus, b, storage_ok) ==
    LET ok == storage_ok
              /\ \A i \in 1..Len(bus.db_events) : bus.db_events[i].event_id # b.event.event_id
    IN  [bus |-> IF ok THEN [bus EXCEPT !.db_events = Append(@, b.event)] ELSE bus,
         b |-> [b EXCEPT !.stage = "dashboards", !.recorded = ok]]

\* connection.send_text: the event reaches a connected peer, and raises otherwise
send_text(bus, socket, event) ==
    IF socket \in bus.alive
    THEN [bus EXCEPT !.delivered = Put(@, socket, Append(Get(@, socket, <<>>), event.event_id))]
    ELSE bus

\* broadcast_event left, by return or by an exception: its locals are gone
broadcast_leave(b, stage) ==
    [b EXCEPT !.stage = stage, !.started = FALSE,
              !.snapshot = {}, !.visited = {}, !.disconnected = {}]

\* a loop over node_connections that does not leave out the source node
node_targets_all(keys, event) == keys

\* the node ids the loop over node_connections.items() sends to
node_targets(keys, event) == keys \ {event.node_id}

\* the loop over node_connections, resumed: RuntimeError when the dict changed
\* size since the loop began, else a send to a node not yet visited, else the
\* end of broadcast_event.  A key that joined after the loop began may be
\* passed over.
resume_nodes(bus, b) ==
    LET keys == DOMAIN bus.node_connections
        snap == IF b.started THEN b.snapshot ELSE keys
        rem == node_targets(keys, b.event) \ b.visited
    IN  IF b.started /\ Cardinality(keys) # Cardinality(b.snapshot)
        THEN {[bus |-> bus, b |-> broadcast_leave(b, "raised")]}
        ELSE {[bus |-> send_text(bus, bus.node_connections[k], b.event),
               b |-> [b EXCEPT !.stage = "nodes", !.started = TRUE, !.snapshot = snap,
                               !.visited = @ \cup {k}]] : k \in rem}
             \cup (IF rem \subseteq (keys \ snap)
                   THEN {[bus |-> bus, b |-> broadcast_leave(b, "returned")]}
                   ELSE {})

\* the loop over active_connections, resumed: RuntimeError when the set changed
\* size since the loop began, else a send to a socket not yet visited, else
\* the dead sockets are dropped and the loop over the nodes begins
resume_dashboards(bus, b) ==
    LET snap == IF b.started THEN b.snapshot ELSE bus.active_connections
        rem == bus.active_connections \ b.visited
    IN  IF b.started /\ Cardinality(bus.active_connections) # Cardinality(b.snapshot)
        THEN {[bus |-> bus, b |-> broadcast_leave(b, "raised")]}
        ELSE {[bus |-> send_text(bus, c, b.event),
               b |-> [b EXCEPT !.started = TRUE, !.snapshot = snap,
                               !.visited = @ \cup {c},
                               !.disconnected = IF c \in bus.alive THEN @ ELSE @ \cup {c}]] :
                c \in rem}
             \cup (IF rem \subseteq (bus.active_connections \ snap)
                   THEN resume_nodes(
                            [bus EXCEPT !.active_connections = @ \ b.disconnected],
                            [b EXCEPT !.started = FALSE, !.snapshot = {}, !.visited = {}])
                   ELSE {})

\* broadcast_event resumed after a send_text
broadcast_resume(bus, b) ==
    IF b.stage = "dashboards" THEN resume_dashboards(bus, b) ELSE resume_nodes(bus, b)

Running(t) == tasks[t].b.stage \in {"record", "dashboards", "nodes"}

\* DatabaseManager.update_node_status: UPDATE nodes SET status WHERE node_id
update_node_status(nodes, node_id, status) ==
    IF node_id \in DOMAIN nodes THEN [nodes EXCEPT ![node_id].status = status] ELSE nodes

\* a peer that goes away is no longer among the subscriptions that stayed
\* live since a broadcast began
Unsteady(socket) == [t \in DOMAIN tasks |-> [tasks[t] EXCEPT !.b.steady = @ \ {socket}]]

SetBus(bus) ==
    /\ db_events' = bus.db_events
    /\ active_connections' = bus.active_connections
    /\ node_connections' = bus.node_connections
    /\ alive' = bus.alive
    /\ delivered' = bus.delivered

busFrame == <<db_files, db_conflicts, file_versions, file_content, response, uploaded,
              versionVars, clockVars, pureVars>>

\* handle_websocket_connection up to its first await after accept
ConnectDashboard ==
    \E d \in Dashboards :
        /\ d \notin DOMAIN delivered
        /\ alive' = alive \cup {d}
        /\ active_connections' = active_connections \cup {d}
        /\ delivered' = Put(delivered, d, <<>>)
        /\ UNCHANGED <<node_connections, tasks, db_nodes, db_events, next_uuid, busFrame>>

\* the peer of a socket goes away
PeerClose ==
    \E socket \in alive :
        /\ alive' = alive \ {socket}
        /\ tasks' = Unsteady(socket)
        /\ UNCHANGED <<active_connections, node_connections, delivered,
                       db_nodes, db_events, next_uuid, busFrame>>

\* handle_websocket_connection: WebSocketDisconnect, then the finally clause
DisconnectDashboard ==
    \E d \in active_connections :
        /\ d \notin alive
        /\ active_connections' = active_connections \ {d}
        /\ UNCHANGED <<node_connections, alive, delivered, tasks,
                       db_nodes, db_events, next_uuid, busFrame>>

\* handle_node_websocket_connection up to its receive loop
ConnectNode ==
    \E node_id \in Nodes :
        /\ NodeSocket(node_id) \notin DOMAIN delivered
        /\ alive' = alive \cup {NodeSocket(node_id)}
        /\ node_connections' = Put(node_connections, node_id, NodeSocket(node_id))
        /\ delivered' = Put(delivered, NodeSocket(node_id), <<>>)
        /\ db_nodes' = update_node_status(db_nodes, node_id, "online")
        /\ UNCHANGED <<active_connections, tasks, db_events, next_uuid, busFrame>>

\* handle_node_websocket_connection: the receive loop ends (the peer went
\* away, or handle_node_message raised), then the finally clause
DisconnectNode ==
    \E node_id \in DOMAIN node_connections :
        /\ \/ NodeSocket(node_id) \notin alive
           \/ node_id \in DOMAIN tasks /\ tasks[node_id].b.stage = "raised"
        /\ node_id \in DOMAIN tasks => ~Running(node_id)
        /\ db_nodes' = update_node_status(db_nodes, node_id, "offline")
        /\ node_connections' = Remove(node_connections, node_id)
        /\ alive' = alive \ {NodeSocket(node_id)}
        /\ tasks' = Unsteady(NodeSocket(node_id))
        /\ UNCHANGED <<active_connections, delivered, db_events, next_uuid, busFrame>>

\* handle_node_message of a file_change message: broadcast_event is entered
NodeFileChange ==
    \E node_id \in DOMAIN node_connections :
        /\ NodeSocket(node_id) \in alive
        /\ node_id \in DOMAIN tasks => ~Running(node_id)
        /\ next_uuid <= MaxBroadcasts
        /\ tasks' = Put(tasks, node_id,
                        [b |-> broadcast_call(Bus,
                                   SyncEvent([next_uuid |-> next_uuid], "file_modified",
                                             node_id, "None", EmptyMap, EmptyMap))])
        /\ next_uuid' = next_uuid + 1
        /\ UNCHANGED <<active_connections, node_connections, alive, delivered,
                       db_nodes, db_events, busFrame>>

\* the INSERT of record_event takes place
RecordEvent ==
    \E t \in DOMAIN tasks, storage_ok \in BOOLEAN :
        /\ tasks[t].b.stage = "record"
        /\ \E out \in {bus_record_event(Bus, tasks[t].b, storage_ok)} :
            /\ SetBus(out.bus)
            /\ tasks' = [tasks EXCEPT ![t].b = out.b]
        /\ UNCHANGED <<db_nodes, next_uuid, busFrame>>

\* broadcast_event goes on to its next send_text, or to its end
ResumeBroadcast ==
    \E t \in DOMAIN tasks :
        /\ tasks[t].b.stage \in {"dashboards", "nodes"}
        /\ \E out \in broadcast_resume(Bus, tasks[t].b) :
            /\ SetBus(out.bus)
            /\ tasks' = [tasks EXCEPT ![t].b = out.b]
        /\ UNCHANGED <<db_nodes, next_uuid, busFrame>>

NextBus ==
    \/ ConnectDashboard \/ PeerClose \/ DisconnectDashboard
    \/ ConnectNode \/ DisconnectNode
    \/ NodeFileChange \/ RecordEvent \/ ResumeBroadcast

SpecBus == Init /\ [][NextBus]_vars

(***************************************************************************)
(* broadcast_event on its own: one call, run from its entry to its return  *)
(* with no other coroutine in between, on every set of subscriptions.      *)
(***************************************************************************)
RECURSIVE broadcast_run(_, _)
\* the outcomes of broadcast_event once record_event is over
broadcast_run(bus, b) ==
    IF b.stage \in {"returned", "raised"} THEN {[bus |-> bus, b |-> b]}
    ELSE UNION {broadcast_run(out.bus, out.b) : out \in broadcast_resume(bus, b)}

\* the subscriptions a server can hold: dashboards and nodes that connected,
\* some of whose peers went away since
InitFanout ==
    /\ metadata_dir = EmptyMap
    /\ versions_dir = EmptyMap
    /\ version_cache = EmptyMap
    /\ next_version_id = 1
    /\ node_clocks = EmptyMap
    /\ global_nodes = {}
    /\ observed = EmptyMap
    /\ lastOp = [op |-> "none"]
    /\ db_nodes = EmptyMap
    /\ db_files = EmptyMap
    /\ db_events = <<>>
    /\ db_conflicts = {}
    /\ file_versions = EmptyMap
    /\ file_content = EmptyMap
    /\ next_uuid = 1
    /\ response = [op |-> "none"]
    /\ uploaded = EmptyMap
    /\ active_connections \in SUBSET Dashboards
    /\ node_connections \in UNION {[ns -> {"ws"}] : ns \in SUBSET Nodes}
    /\ alive \in SUBSET (Dashboards \cup {NodeSocket(n) : n \in Nodes})
    /\ delivered = EmptyMap
    /\ tasks = EmptyMap
    /\ args = <<>>
    /\ result = <<>>
    /\ pc = "ready"

\* the subscriptions drawn, each node with its own socket
FanoutBus ==
    [Bus EXCEPT
        !.node_connections = [n \in DOMAIN node_connections |-> NodeSocket(n)],
        !.alive = alive \cap (active_connections
                                \cup {NodeSocket(n) : n \in DOMAIN node_connections}),
        !.delivered = [c \in active_connections
                                \cup {NodeSocket(n) : n \in DOMAIN node_connections} |-> <<>>]]

\* one event of a node is broadcast
Fanout ==
    \E node_id \in Nodes, storage_ok \in BOOLEAN :
        /\ pc = "ready"
        /\ pc' = "done"
        /\ \E recorded \in {bus_record_event(
                                FanoutBus,
                                broadcast_call(FanoutBus,
                                    SyncEvent([next_uuid |-> next_uuid], "file_modified",
                                              node_id, "None", EmptyMap, EmptyMap)),
                                storage_ok)} :
            \E out \in broadcast_run(recorded.bus, recorded.b) :
                /\ SetBus(out.bus)
                /\ tasks' = Put(tasks, node_id, [b |-> out.b])
        /\ next_uuid' = next_uuid + 1
        /\ UNCHANGED <<db_nodes, db_files, db_conflicts, file_versions, file_content,
                       response, uploaded, versionVars, clockVars, args, result>>

SpecFanout == InitFanout /\ [][Fanout]_vars

\* the sockets an event was sent to
SentTo(event_id) == {c \in DOMAIN delivered : event_id \in Range(delivered[c])}

\* C11: broadcast_event never delivers an event to the node subscription of
\* the event's source node, and a call that returns has delivered the event
\* to every live dashboard subscription and every other live node
\* subscription.
C11_SenderSuppression ==
    \A t \in DOMAIN tasks :
        /\ NodeSocket(tasks[t].b.event.node_id) \notin SentTo(tasks[t].b.event.event_id)
        /\ tasks[t].b.stage = "returned" =>
              tasks[t].b.steady \subseteq SentTo(tasks[t].b.event.event_id)

\* an event of n1, whose subscription is live, reached a dashboard and the
\* subscription of n2 while a dead dashboard was dropped
C11_Witness ==
    /\ "n1" \in DOMAIN tasks
    /\ tasks["n1"].b.stage = "returned"
    /\ "ws_n1" \in alive
    /\ "n1" \in DOMAIN node_connections
    /\ SentTo(tasks["n1"].b.event.event_id) = {"d1", "ws_n2"}
    /\ active_connections = {"d1"}
    /\ "d2" \in DOMAIN delivered

(***************************************************************************)
(* The claims about broadcasts that interleave with other coroutines.      *)
(***************************************************************************)
\* C12: an event is stored in the log and pushed to subscribers, or neither:
\* when the append to the log fails no subscriber receives the event.
C12_Original ==
    \A t \in DOMAIN tasks :
        ~tasks[t].b.recorded => SentTo(tasks[t].b.event.event_id) = {}

\* the place of an event in what a socket received, or in the log
PlaceIn(ids, event_id) == CHOOSE i \in 1..Len(ids) : ids[i] = event_id

\* the event ids of the log, in the order they were recorded
LogIds == [i \in 1..Len(db_events) |-> db_events[i].event_id]

\* two sequences of ids agree on the relative order of e1 and e2
SameOrder(ids1, ids2, e1, e2) ==
    (PlaceIn(ids1, e1) < PlaceIn(ids1, e2)) <=> (PlaceIn(ids2, e1) < PlaceIn(ids2, e2))

\* C13: any two subscriptions that both received two events received them in
\* the same relative order, and that order is the order in which the log
\* recorded them.
C13_Original ==
    \A e1, e2 \in 1..MaxBroadcasts : \A c1, c2 \in DOMAIN delivered :
        /\ e1 # e2
        /\ {e1, e2} \subseteq Range(delivered[c1]) \cap Range(delivered[c2])
        => /\ SameOrder(delivered[c1], delivered[c2], e1, e2)
           /\ {e1, e2} \subseteq Range(LogIds) =>
                  SameOrder(delivered[c1], LogIds, e1, e2)

\* C14: a broadcast that is over has delivered its event to every dashboard
\* subscription and every other node subscription that stayed live for the
\* whole broadcast, whatever connected, disconnected or failed meanwhile.
C14_Original ==
    \A t \in DOMAIN tasks :
        tasks[t].b.stage \in {"returned", "raised"} =>
            tasks[t].b.steady \subseteq SentTo(tasks[t].b.event.event_id)

(***************************************************************************)
(* _propagate_file_to_nodes, one await at a time.  An upload that was      *)
(* accepted replicates to the online nodes in turn; every broadcast_event  *)
(* of the replication may raise RuntimeError, which it does when a         *)
(* subscription is added or removed while it iterates (ResumeBroadcast).   *)
(***************************************************************************)
MaxUploads == 1

\* the uploads that upload_file accepts
AcceptedRequests ==
    {request \in UploadRequests : /\ ~upload_file_accept(Server, request).raised
                                  /\ request.encoding = "hex"
                                  /\ request.use_delta_sync}

\* the uploads accepted so far
UploadsDone == Len(SelectSeq(db_events, LAMBDA e : e.event_type = "file_modified"))

\* the node the loop of _propagate_file_to_nodes is at
TargetNode == Head(args.nodes)

\* the server after a step of the request in progress
SetReplication(srv, op) ==
    /\ SetManager(srv.mgr, op)
    /\ db_nodes' = srv.db_nodes
    /\ db_files' = srv.db_files
    /\ db_events' = srv.db_events
    /\ db_conflicts' = srv.db_conflicts
    /\ file_versions' = srv.file_versions
    /\ file_content' = srv.file_content
    /\ next_uuid' = srv.next_uuid

\* except Exception of the loop body: the handler reads SyncEventType.SYNC_ERROR;
\* when the enum has no such member that read raises AttributeError, the outer
\* handler reads it again and the error reaches upload_file, which answers 500
propagate_except(srv, file_metadata, node_id, error) ==
    IF "SYNC_ERROR" \in SyncEventType
    THEN [raised |-> FALSE,
          srv |-> broadcast_event(srv, "sync_error", node_id, file_metadata.file_id,
                                  [target_node |-> node_id,
                                   source_node |-> file_metadata.owner_node,
                                   error |-> error],
                                  [n \in {node_id} |-> 1])]
    ELSE [raised |-> TRUE, srv |-> srv]

\* a broadcast_event of the loop body is over: it returned, or it raised and the
\* handler ran
AfterBroadcast(srv, raised, next_pc) ==
    IF ~raised
    THEN /\ SetReplication(srv, lastOp)
         /\ pc' = next_pc
         /\ args' = IF next_pc = "loop" THEN [args EXCEPT !.nodes = Tail(@)] ELSE args
         /\ UNCHANGED response
    ELSE \E handled \in {propagate_except(srv, args.file_metadata, TargetNode,
                                          "Set changed size during iteration")} :
            /\ SetReplication(handled.srv, lastOp)
            /\ pc' = IF handled.raised THEN "idle" ELSE "loop"
            /\ args' = IF handled.raised THEN <<>> ELSE [args EXCEPT !.nodes = Tail(@)]
            /\ response' = IF handled.raised
                           THEN [op |-> "upload_file", status_code |-> 500,
                                 file_id |-> args.file_metadata.file_id,
                                 detail |-> "SYNC_ERROR"]
                           ELSE response

replicateFrame == <<busVars, versionVars, uploaded>>

\* CoordinatorServer.__init__
NewServer ==
    [mgr |-> [node_clocks |-> EmptyMap, global_nodes |-> {}],
     db_nodes |-> EmptyMap, db_files |-> EmptyMap, db_events |-> <<>>,
     db_conflicts |-> {}, file_versions |-> EmptyMap, file_content |-> EmptyMap,
     next_uuid |-> 1]

RECURSIVE registered_server(_, _, _)
\* the server after POST /api/register of the nodes of a list, those of offline
\* having closed their socket since
registered_server(srv, nodes, offline) ==
    IF nodes = <<>>
    THEN [srv EXCEPT !.db_nodes = [n \in DOMAIN @ |->
                                      IF n \in offline
                                      THEN update_node_status(@, n, "offline")[n]
                                      ELSE @[n]]]
    ELSE registered_server(api_register_node(srv, Head(nodes)).srv, Tail(nodes), offline)

\* a server on which some nodes registered, some of which went offline
InitReplicate ==
    \E registered \in SUBSET Range(NodeOrder) : \E offline \in SUBSET registered :
        \E srv \in {registered_server(NewServer,
                                      SelectSeq(NodeOrder, LAMBDA n : n \in registered),
                                      offline)} :
            /\ metadata_dir = EmptyMap
            /\ versions_dir = EmptyMap
            /\ version_cache = EmptyMap
            /\ next_version_id = 1
            /\ node_clocks = srv.mgr.node_clocks
            /\ global_nodes = srv.mgr.global_nodes
            /\ observed = Observe(EmptyMap, srv.mgr)
            /\ lastOp = [op |-> "none"]
            /\ db_nodes = srv.db_nodes
            /\ db_files = srv.db_files
            /\ db_events = srv.db_events
            /\ db_conflicts = srv.db_conflicts
            /\ file_versions = srv.file_versions
            /\ file_content = srv.file_content
            /\ next_uuid = srv.next_uuid
            /\ response = [op |-> "none"]
            /\ uploaded = EmptyMap
            /\ active_connections = {}
            /\ node_connections = EmptyMap
            /\ alive = {}
            /\ delivered = EmptyMap
            /\ tasks = EmptyMap
            /\ args = <<>>
            /\ result = <<>>
            /\ pc = "idle"

\* POST /api/files/upload up to nodes = await self.db.get_online_nodes()
BeginUpload ==
    \E request \in AcceptedRequests :
        /\ pc = "idle"
        /\ UploadsDone < MaxUploads
        /\ \E accepted \in {upload_file_accept(Server, request)} :
            /\ SetReplication(accepted.srv, Seen("increment", request.owner_node, EmptyMap))
            /\ args' = [file_metadata |-> accepted.file_metadata,
                        file_data |-> accepted.file_data,
                        nodes |-> get_online_nodes(accepted.srv),
                        response |-> accepted.response]
        /\ pc' = "loop"
        /\ uploaded' = Put(uploaded, request.file_id, request.payload)
        /\ UNCHANGED <<busVars, versionVars, response, result>>

\* the loop is over: upload_file answers
PropagateReturn ==
    /\ pc = "loop"
    /\ args.nodes = <<>>
    /\ pc' = "idle"
    /\ response' = args.response
    /\ args' = <<>>
    /\ UNCHANGED <<replicateFrame, clockVars, result, db_nodes, db_files, db_events,
                   db_conflicts, file_versions, file_content, next_uuid>>

\* if node.node_id != file_metadata.owner_node: the owner is passed over
PropagateSkipOwner ==
    /\ pc = "loop"
    /\ args.nodes # <<>>
    /\ TargetNode = args.file_metadata.owner_node
    /\ args' = [args EXCEPT !.nodes = Tail(@)]
    /\ UNCHANGED <<replicateFrame, clockVars, serverVars, result, pc>>

SyncStarted ==
    /\ pc = "loop"
    /\ args.nodes # <<>>
    /\ TargetNode # args.file_metadata.owner_node
    /\ \E raised \in BOOLEAN :
        AfterBroadcast(sync_started(Server, args.file_metadata, TargetNode), raised,
                       "progress")
    /\ result' = sync_steps
    /\ UNCHANGED replicateFrame

SyncProgress ==
    /\ pc = "progress"
    /\ result # <<>>
    /\ \E raised \in BOOLEAN :
        AfterBroadcast(sync_progress(Server, args.file_metadata, TargetNode,
                                     <<Head(result)>>),
                       raised, "progress")
    /\ result' = Tail(result)
    /\ UNCHANGED replicateFrame

\* await self.db.store_file(replica_metadata)
StoreReplica ==
    /\ pc = "progress"
    /\ result = <<>>
    /\ SetReplication(store_file(Server, replica_metadata(args.file_metadata, TargetNode)),
                      lastOp)
    /\ pc' = "version"
    /\ UNCHANGED <<replicateFrame, response, args, result>>

\* self.file_manager.create_version(replica_metadata.file_id, ...)
CreateReplicaVersion ==
    /\ pc = "version"
    /\ SetReplication(replica_version(Server, args.file_metadata, args.file_data,
                                      TargetNode),
                      lastOp)
    /\ pc' = "completed"
    /\ UNCHANGED <<replicateFrame, response, args, result>>

SyncCompleted ==
    /\ pc = "completed"
    /\ \E raised \in BOOLEAN :
        AfterBroadcast(sync_completed(Server, args.file_metadata, args.file_data,
                                      TargetNode),
                       raised, "loop")
    /\ UNCHANGED <<replicateFrame, result>>

NextReplicate ==
    \/ BeginUpload \/ PropagateReturn \/ PropagateSkipOwner \/ SyncStarted \/ SyncProgress \/ StoreReplica
    \/ CreateReplicaVersion \/ SyncCompleted

SpecReplicate == InitReplicate /\ [][NextReplicate]_vars

\* the events of the log about the replication of a file to a node
ReplicationEvents(file_id, node_id) ==
    SelectSeq(db_events,
              LAMBDA e : /\ e.event_type \in {"file_sync_progress", "sync_completed"}
                         /\ e.file_id = file_id
                         /\ e.data.target_node = node_id)

\* how far a replication event says the replication is
Stage(event) == IF event.event_type = "sync_completed" THEN 100 ELSE event.data.progress

\* the stages of the replication events of a file and a node, in log order
Stages(file_id, node_id) ==
    [i \in 1..Len(ReplicationEvents(file_id, node_id)) |->
        Stage(ReplicationEvents(file_id, node_id)[i])]

\* the stage that follows a stage
NextStage(stage) ==
    CASE stage = 0 -> 25 [] stage = 25 -> 50 [] stage = 50 -> 75 [] stage = 75 -> 100
      [] OTHER -> 0

\* every replication starts at sync_started and moves one stage at a time
StagesInOrder(stages) ==
    \A i \in 1..Len(stages) :
        \/ stages[i] = 0
        \/ i > 1 /\ stages[i - 1] # 100 /\ stages[i] = NextStage(stages[i - 1])

\* the replica metadata of a file for a node is written by this step
ReplicaWritten(file_id, node_id) ==
    /\ replica_file_id(file_id, node_id) \in DOMAIN db_files'
    /\ \/ replica_file_id(file_id, node_id) \notin DOMAIN db_files
       \/ db_files'[replica_file_id(file_id, node_id)]
            # db_files[replica_file_id(file_id, node_id)]

SyncErrors(file_id, node_id) ==
    SelectSeq(db_events,
              LAMBDA e : /\ e.event_type = "sync_error"
                         /\ e.file_id = file_id
                         /\ e.data.target_node = node_id)

\* the replication of a file to a node began and did not complete
ReplicationFailed(file_id, node_id) ==
    /\ Stages(file_id, node_id) # <<>>
    /\ Stages(file_id, node_id)[Len(Stages(file_id, node_id))] # 100

\* the online nodes other than the owner of a file
OnlinePeers(file_id) ==
    {node_id \in Range(get_online_nodes(Server)) :
        node_id # db_files[file_id].owner_node}

\* C16: when the replication to one peer fails, a sync_error event that names
\* the peer is in the log and the replications to the other peers still take
\* place.
C16_Original ==
    pc = "idle" =>
        \A file_id \in ServerFiles \cap DOMAIN db_files :
            \A node_id \in OnlinePeers(file_id) :
                ReplicationFailed(file_id, node_id) =>
                    /\ SyncErrors(file_id, node_id) # <<>>
                    /\ \A other \in OnlinePeers(file_id) : Stages(file_id, other) # <<>>

\* the sync_started events of a file and a node
StartedCount(file_id, node_id) ==
    Len(SelectSeq(Stages(file_id, node_id), LAMBDA stage : stage = 0))

\* the terminal events of a file and a node: sync_completed or sync_error
TerminalCount(file_id, node_id) ==
    Len(SelectSeq(Stages(file_id, node_id), LAMBDA stage : stage = 100))
    + Len(SyncErrors(file_id, node_id))

\* every step the request in progress can take is taken
SpecReplicateLive == SpecReplicate /\ WF_vars(NextReplicate)

\* C17: every sync_started event is eventually followed by exactly one
\* terminal event, sync_completed or sync_error, for the same file and node.
C17_Original ==
    \A file_id \in ServerFiles, node_id \in Range(NodeOrder) :
        /\ [](TerminalCount(file_id, node_id) <= StartedCount(file_id, node_id))
        /\ (StartedCount(file_id, node_id) > TerminalCount(file_id, node_id))
              ~> (StartedCount(file_id, node_id) = TerminalCount(file_id, node_id))

\* the replica id of a file for a node as <orig>::replica::<peer>
derived_file_id(file_id, node_id) == file_id \o "::replica::" \o node_id

\* a file has a version that holds the bytes of the current version of another
SameBytes(replica_id, file_id) ==
    /\ has_current_version(Server, replica_id)
    /\ get_version_content(Server, get_current_version(Server, replica_id).version_id)
        = get_version_content(Server, get_current_version(Server, file_id).version_id)

\* a FileMetadata is the replica of a file for a node
ReplicaOfUpload(replica_id, file_id, node_id) ==
    /\ db_files[replica_id].owner_node = node_id
    /\ db_files[replica_id].hash = db_files[file_id].hash
    /\ db_files[replica_id].size = db_files[file_id].size
    /\ SameBytes(replica_id, file_id)

\* C18: when upload_file by owner o succeeds, every online node p other than
\* o has exactly one replica FileMetadata with file_id <orig>::replica::<p>,
\* owner p, the hash and size of the upload and a version holding the same
\* bytes; o and the nodes that are not online have none.
C18_Original ==
    (pc = "idle" /\ response.op = "upload_file" /\ response.status_code = 200) =>
        \A node_id \in Range(NodeOrder) :
            IF node_id \in OnlinePeers(response.file_id)
            THEN /\ derived_file_id(response.file_id, node_id) \in DOMAIN db_files
                 /\ ReplicaOfUpload(derived_file_id(response.file_id, node_id),
                                    response.file_id, node_id)
            ELSE derived_file_id(response.file_id, node_id) \notin DOMAIN db_files

(***************************************************************************)
(* DELETE /api/nodes/{node_id}                                             *)
(***************************************************************************)
\* DatabaseManager.remove_node: the node and the events and conflicts that
\* refer to it are deleted; nothing writes network_metrics, which stays empty
db_remove_node(srv, node_id) ==
    [srv EXCEPT
        !.db_nodes = Remove(@, node_id),
        !.db_events = SelectSeq(@, LAMBDA e : e.node_id # node_id),
        !.db_conflicts = {c \in @ : c.node1 # node_id /\ c.node2 # node_id}]

\* the files of a node that are not deleted
node_files(srv, node_id) ==
    {file_id \in DOMAIN srv.db_files :
        /\ srv.db_files[file_id].owner_node = node_id
        /\ ~srv.db_files[file_id].is_deleted}

\* the files of a node are marked deleted and leave the file manager
delete_node_files(srv, node_id) ==
    [srv EXCEPT
        !.db_files = [file_id \in DOMAIN @ |->
                        IF file_id \in node_files(srv, node_id)
                        THEN [@[file_id] EXCEPT !.is_deleted = TRUE]
                        ELSE @[file_id]],
        !.file_versions = [file_id \in DOMAIN @ \ node_files(srv, node_id) |-> @[file_id]]]

\* DELETE /api/nodes/{node_id}: the server after the request and the response
remove_node(srv, node_id) ==
    IF node_id \notin DOMAIN srv.db_nodes
    THEN [srv |-> srv,
          response |-> [op |-> "remove_node", status_code |-> 500, node_id |-> node_id]]
    ELSE [srv |-> broadcast_event(
                    db_remove_node(delete_node_files(srv, node_id), node_id),
                    "node_left", node_id, "None",
                    [node_id |-> node_id, action |-> "removed",
                     files_deleted |-> Cardinality(node_files(srv, node_id))],
                    [n \in {node_id} |-> 1]),
          response |-> [op |-> "remove_node", status_code |-> 200, node_id |-> node_id,
                        files_deleted |-> Cardinality(node_files(srv, node_id))]]

ApiRemoveNode ==
    \E node_id \in Range(NodeOrder) :
        /\ pc = "idle"
        /\ SetServer(remove_node(Server, node_id), lastOp)
        /\ UNCHANGED <<busVars, versionVars, pureVars, uploaded>>

\* nodes are removed from a server on which some nodes registered
SpecRemove == InitReplicate /\ [][ApiRemoveNode]_vars

\* C19: after remove_node(n) completes no row of events or conflicts refers
\* to n, the events emitted by the removal included (nothing writes
\* network_metrics), and every row that does not refer to n is unchanged.
C19_Original ==
    [][(response' # response /\ response'.op = "remove_node"
        /\ response'.status_code = 200) =>
            /\ \A i \in 1..Len(db_events') : db_events'[i].node_id # response'.node_id
            /\ \A c \in db_conflicts' :
                    c.node1 # response'.node_id /\ c.node2 # response'.node_id
            /\ \A i \in 1..Len(db_events) :
                    db_events[i].node_id # response'.node_id =>
                        \E j \in 1..Len(db_events') : db_events'[j] = db_events[i]
            /\ \A c \in db_conflicts :
                    (c.node1 # response'.node_id /\ c.node2 # response'.node_id) =>
                        c \in db_conflicts']_vars

(***************************************************************************)
(* What a POST /api/files/upload leaves behind                             *)
(***************************************************************************)
\* the events a step appended to the log
NewEvents == SubSeq(db_events', Len(db_events) + 1, Len(db_events'))

\* C20: upload_file fails atomically: when it answers with an error the
\* owner's vector clock, the version store, the file metadata table and the
\* event log are as before the call; when it answers with success the file
\* metadata is persisted and the file_modified event is recorded.
C20_Original ==
    [][response'.op = "upload_file" =>
        IF response'.status_code = 200
        THEN /\ response'.file_id \in DOMAIN db_files'
             /\ \E i \in 1..Len(NewEvents) :
                    /\ NewEvents[i].event_type = "file_modified"
                    /\ NewEvents[i].file_id = response'.file_id
        ELSE /\ Get(node_clocks', lastOp'.node, EmptyMap)
                    = Get(node_clocks, lastOp'.node, EmptyMap)
             /\ file_versions' = file_versions
             /\ file_content' = file_content
             /\ db_files' = db_files
             /\ db_events' = db_events]_vars

(***************************************************************************)
(* POST /api/files/upload, one await at a time: the handler runs from its  *)
(* entry to await self.db.store_file, then to await broadcast_event, then  *)
(* to its return; other uploads run in between.                            *)
(***************************************************************************)
MaxCalls == 2

\* the version numbers a request carries
RequestVersions == {1, 2}

\* the upload requests received: the declared size and version are the client's
CallRequests ==
    {[file_id |-> file_id, owner_node |-> owner_node, payload |-> payload,
      encoding |-> "hex", size |-> size, version |-> version,
      chunks |-> client_chunks(payload, "hex", MaxPayload),
      use_delta_sync |-> use_delta_sync] :
        file_id \in ServerFiles, owner_node \in Nodes,
        payload \in {p \in Payloads : Len(p) <= 1}, size \in 0..1,
        version \in RequestVersions, use_delta_sync \in BOOLEAN}

\* upload_file up to await self.db.store_file(request.file_metadata)
UploadCall ==
    \E request \in CallRequests :
        /\ Len(args) < MaxCalls
        /\ request.owner_node \notin DOMAIN tasks
        /\ \E accepted \in {upload_file_accept(Server, request)} :
            IF accepted.raised
            THEN /\ SetServer(accepted, Seen("increment", request.owner_node, EmptyMap))
                 /\ UNCHANGED tasks
            ELSE /\ SetServer([srv |-> accepted.versioned, response |-> response],
                              Seen("increment", request.owner_node, EmptyMap))
                 /\ tasks' = Put(tasks, request.owner_node,
                                 [stage |-> "store", accepted |-> accepted])
        /\ args' = Append(args, request)
        /\ uploaded' = Put(uploaded, request.file_id, request.payload)
        /\ UNCHANGED <<active_connections, node_connections, alive, delivered,
                       versionVars, result, pc>>

\* the store_file of an upload is done
UploadStore ==
    \E owner \in DOMAIN tasks :
        /\ tasks[owner].stage = "store"
        /\ db_files' = store_file(Server, tasks[owner].accepted.file_metadata).db_files
        /\ tasks' = [tasks EXCEPT ![owner].stage = "broadcast"]
        /\ UNCHANGED <<active_connections, node_connections, alive, delivered,
                       versionVars, clockVars, pureVars, db_nodes, db_events, db_conflicts,
                       file_versions, file_content, next_uuid, response, uploaded>>

\* the file_modified event is recorded, the file is replicated, the call returns
UploadReturn ==
    \E owner \in DOMAIN tasks :
        /\ tasks[owner].stage = "broadcast"
        /\ SetServer(
            [srv |-> propagate_file_to_nodes(
                        broadcast_event(Server, "file_modified", owner,
                                        tasks[owner].accepted.file_metadata.file_id,
                                        tasks[owner].accepted.event_data,
                                        tasks[owner].accepted.file_metadata.vector_clock),
                        tasks[owner].accepted.file_metadata,
                        tasks[owner].accepted.file_data),
             response |-> tasks[owner].accepted.response],
            lastOp)
        /\ tasks' = Remove(tasks, owner)
        /\ UNCHANGED <<active_connections, node_connections, alive, delivered,
                       versionVars, pureVars, uploaded>>

NextUploads == UploadCall \/ UploadStore \/ UploadReturn

SpecUploads == Init /\ [][NextUploads]_vars

\* the FileMetadata of a file and its current version come from one upload
MetadataOfCurrentVersion(file_id) ==
    /\ db_files[file_id].hash
        = calculate_content_hash(
            get_version_content(Server, get_current_version(Server, file_id).version_id))
    /\ db_files[file_id].owner_node = get_current_version(Server, file_id).created_by

\* C21: uploads of one file are serialized: once two concurrent upload_file
\* calls on the file have completed, the persisted FileMetadata is that of
\* the file's current version (its hash is the hash of the version's bytes),
\* as after running the two uploads one after the other in some order.
C21_Original ==
    \A file_id \in ServerFiles :
        (/\ tasks = EmptyMap
         /\ file_id \in DOMAIN db_files
         /\ has_current_version(Server, file_id)) =>
            MetadataOfCurrentVersion(file_id)

(***************************************************************************)
(* What DELETE /api/files/{file_id} leaves behind                          *)
(***************************************************************************)
\* GET /api/files/{file_id}/history: file_versions.get(file_id, [])
get_file_history(srv, file_id) == Get(srv.file_versions, file_id, <<>>)

\* C22: delete_file(f, n) sets is_deleted on f's metadata and removes no
\* version of f: the version history of f and the content of each of its
\* versions are the same after the call as before.
C22_Original ==
    [][(response'.op = "delete_file" /\ response'.status_code = 200) =>
        /\ db_files'[response'.file_id].is_deleted
        /\ Get(file_versions', response'.file_id, <<>>)
            = get_file_history(Server, response'.file_id)
        /\ file_content' = file_content]_vars

\* C23: for every file_id the version number stored in its FileMetadata
\* strictly increases with each accepted upload_file of that file, whatever
\* version value the upload request carries.
C23_Original ==
    [][\A file_id \in ServerFiles :
        (/\ file_id \in DOMAIN db_files
         /\ db_files'[file_id] # db_files[file_id]
         /\ ~db_files'[file_id].is_deleted) =>
            db_files'[file_id].version > db_files[file_id].version]_vars

\* the request of the upload_file call a step begins
CalledRequest == args'[Len(args')]

\* C24: upload_file rejects (with BadRequest; any error answer is taken as
\* a rejection here), creating no version, no metadata row and no event, every
\* request whose chunk payloads do not reassemble to exactly
\* file_metadata.size bytes.
C24_Original ==
    [][(/\ Len(args') = Len(args) + 1
        /\ Len(upload_file_data(CalledRequest)) # CalledRequest.size) =>
            /\ CalledRequest.owner_node \notin DOMAIN tasks'
            /\ response'.op = "upload_file"
            /\ response'.status_code # 200
            /\ file_versions' = file_versions
            /\ file_content' = file_content
            /\ db_files' = db_files
            /\ db_events' = db_events]_vars

(***************************************************************************)
(* The accounting of a delta                                               *)
(***************************************************************************)
RECURSIVE SeqSum(_)
SeqSum(numbers) == IF numbers = <<>> THEN 0 ELSE Head(numbers) + SeqSum(Tail(numbers))

\* the number of bytes of the chunk of a content at an index
SizeOfChunk(content, index) ==
    IF (index + 1) * CHUNK_SIZE <= Len(content) THEN CHUNK_SIZE
    ELSE Len(content) - index * CHUNK_SIZE

\* the indices chunks_to_add lists
AddedIndices(delta) == [k \in 1..Len(delta.chunks_to_add) |-> delta.chunks_to_add[k].index]

\* how often a sequence holds a value
Occurrences(values, v) == Cardinality({k \in 1..Len(values) : values[k] = v})

\* C25: in every delta from X to Y that create_content_delta produces,
\* bandwidth_saved is the sum of the sizes of the chunks of Y listed in
\* chunks_unchanged and is at most |Y|, every chunk index of Y is in exactly
\* one of chunks_unchanged and chunks_to_add, and total_chunks is their
\* combined count.
C25_DeltaAccounting ==
    pc \in {"delta", "done"} =>
        /\ result.delta.bandwidth_saved
            = SeqSum([k \in 1..Len(result.delta.chunks_unchanged) |->
                        SizeOfChunk(args.Y, result.delta.chunks_unchanged[k])])
        /\ result.delta.bandwidth_saved <= Len(args.Y)
        /\ \A index \in 0..(ChunkCount(args.Y) - 1) :
                Occurrences(result.delta.chunks_unchanged, index)
                + Occurrences(AddedIndices(result.delta), index) = 1
        /\ \A k \in 1..Len(result.delta.chunks_unchanged) :
                result.delta.chunks_unchanged[k] \in 0..(ChunkCount(args.Y) - 1)
        /\ result.delta.total_chunks
            = Len(result.delta.chunks_unchanged) + Len(result.delta.chunks_to_add)
        /\ get_delta_metrics(result.delta).compressed_size
            = Len(args.Y) - result.delta.bandwidth_saved

\* a delta whose only chunk is short and is found at the end of a longer X
C25_Witness ==
    /\ pc = "delta"
    /\ Len(args.Y) = 1
    /\ Len(args.X) = CHUNK_SIZE + 1
    /\ result.delta.chunks_unchanged = <<0>>
    /\ result.delta.chunks_to_add = <<>>
    /\ result.delta.bandwidth_saved = 1

(***************************************************************************)
(* Uploading the same bytes twice                                          *)
(***************************************************************************)
\* C26: Upload(X) followed by Upload(X) of the same file_id with identical
\* non-empty bytes: the second upload's delta has chunks_to_add empty,
\* bandwidth_saved = |X| and compression_ratio = 100%.
C26_Original ==
    [][\A file_id \in ServerFiles :
        (/\ response'.op = "upload_file"
         /\ response'.file_id = file_id
         /\ lastOp'.op = "increment"
         /\ file_id \in DOMAIN uploaded
         /\ uploaded'[file_id] = uploaded[file_id]
         /\ uploaded[file_id] # <<>>) =>
            /\ response'.status_code = 200
            /\ response'.delta_metrics.chunks_new = 0
            /\ response'.delta_metrics.bandwidth_saved = Len(uploaded[file_id])
            /\ response'.delta_metrics.compression_ratio.num
                = 100 * response'.delta_metrics.compression_ratio.den]_vars

(***************************************************************************)
(* The chunks a delta removes                                              *)
(***************************************************************************)
OldChunksAbsent(old_content, new_content) ==
    {index \in 0..(ChunkCount(old_content) - 1) :
        \A j \in 0..(ChunkCount(new_content) - 1) :
            calculate_strong_hash(ChunkData(new_content, j))
                # calculate_strong_hash(ChunkData(old_content, index))}

\* C27: in every delta from old to new content, chunks_to_remove lists
\* exactly the indices of the old chunks whose strong hash does not occur
\* among the new chunks; when the new content is empty and the old is not, it
\* covers all of the old chunks.
C27_Original ==
    pc \in {"delta", "done"} =>
        /\ {result.delta.chunks_to_remove[k] :
                k \in 1..Len(result.delta.chunks_to_remove)}
            = OldChunksAbsent(args.X, args.Y)
        /\ Len(result.delta.chunks_to_remove)
            = Cardinality(OldChunksAbsent(args.X, args.Y))

(***************************************************************************)
(* Registering a node twice                                                *)
(***************************************************************************)
\* calls of POST /api/register and DELETE /api/nodes/{node_id} on a server
\* that some nodes have registered with; args is the list of the calls made
RegisterCall ==
    \E node_id \in Nodes :
        /\ Len(args) < MaxCalls
        /\ SetServer(api_register_node(Server, node_id),
                     Seen("register", node_id, EmptyMap))
        /\ args' = Append(args, [op |-> "register_node", node_id |-> node_id])
        /\ UNCHANGED <<busVars, uploaded, versionVars, result, pc>>

RemoveCall ==
    \E node_id \in Nodes :
        /\ Len(args) < MaxCalls
        /\ SetServer(remove_node(Server, node_id), Seen("remove", node_id, EmptyMap))
        /\ args' = Append(args, [op |-> "remove_node", node_id |-> node_id])
        /\ UNCHANGED <<busVars, uploaded, versionVars, result, pc>>

NextRegister == RegisterCall \/ RemoveCall

SpecRegister ==
    InitReplicate /\ [][NextRegister]_vars

RegisteredTwice(calls, node_id) ==
    /\ Len(calls) >= 2
    /\ calls[Len(calls)] = [op |-> "register_node", node_id |-> node_id]
    /\ calls[Len(calls) - 1] = [op |-> "register_node", node_id |-> node_id]

\* C28: registering the same node N twice with no other operation in between
\* returns on the second call the same vector clock as on the first call:
\* the route answers the same clock, and the manager holds for N the same
\* clock after the second register_node as after the first.
C28_RegisterTwice ==
    [][\A node_id \in Nodes :
        (Len(args') = Len(args) + 1 /\ RegisteredTwice(args', node_id)) =>
            /\ response.op = "register_node"
            /\ response'.op = "register_node"
            /\ response'.status_code = response.status_code
            /\ response'.vector_clock = response.vector_clock
            /\ node_clocks'[node_id] = node_clocks[node_id]]_vars

C28_Witness ==
    \E node_id \in Nodes :
        /\ RegisteredTwice(args, node_id)
        /\ response.op = "register_node"
        /\ response.node_id = node_id
        /\ global_nodes # {node_id}

(***************************************************************************)
(* The causal order of the same events given in another order              *)
(***************************************************************************)
\* the order of the event ids as strings
EventIdOrder == <<"E1", "E2", "E3", "E4">>

IdRank(event_id) == CHOOSE k \in 1..Len(EventIdOrder) : EventIdOrder[k] = event_id

Reordered(events, order) == [i \in 1..Len(events) |-> events[order[i]]]

\* C29: get_causal_order is deterministic and total: any two orders of the
\* same events yield the same output sequence, and a pair of events with
\* concurrent or equal clocks comes out by timestamp and, for equal
\* timestamps, by event_id.
C29_Original ==
    pc = "done" =>
        /\ \A order \in Permutations_(1..Len(args.events)) :
                get_causal_order(Reordered(args.events, order)) = result
        /\ \A i, j \in 1..Len(result) :
                (/\ i < j
                 /\ compare(result[i].vector_clock, result[j].vector_clock)
                        \notin {"before", "after"}) =>
                    \/ result[i].timestamp < result[j].timestamp
                    \/ /\ result[i].timestamp = result[j].timestamp
                       /\ IdRank(result[i].event_id) < IdRank(result[j].event_id)

(***************************************************************************)
(* Several subscriptions of one node                                       *)
(***************************************************************************)
\* the sockets one node opens in a run
MaxSockets == 2

NodeSockets == {[node_id |-> node_id, socket |-> k] : node_id \in Nodes, k \in 1..MaxSockets}

subscribeFrame == <<active_connections, tasks, db_files, db_conflicts, file_versions,
                    file_content, response, uploaded, versionVars, clockVars, result, pc>>

\* handle_node_websocket_connection up to its receive loop
SubscribeNode ==
    \E websocket \in NodeSockets :
        /\ websocket \notin DOMAIN delivered
        /\ alive' = alive \cup {websocket}
        /\ node_connections' = Put(node_connections, websocket.node_id, websocket)
        /\ delivered' = Put(delivered, websocket, <<>>)
        /\ db_nodes' = update_node_status(db_nodes, websocket.node_id, "online")
        /\ UNCHANGED <<db_events, next_uuid, args, subscribeFrame>>

\* handle_node_websocket_connection: WebSocketDisconnect ends the receive
\* loop of a connection, then the finally clause
UnsubscribeNode ==
    \E websocket \in alive :
        /\ db_nodes' = update_node_status(db_nodes, websocket.node_id, "offline")
        /\ node_connections' = Remove(node_connections, websocket.node_id)
        /\ alive' = alive \ {websocket}
        /\ UNCHANGED <<delivered, db_events, next_uuid, args, subscribeFrame>>

\* an event of a node is broadcast; args lists the source nodes so far
SubscriberEvent ==
    \E node_id \in Nodes :
        /\ Len(args) < MaxBroadcasts
        /\ \E recorded \in {bus_record_event(
                                Bus,
                                broadcast_call(Bus,
                                    SyncEvent([next_uuid |-> next_uuid], "file_modified",
                                              node_id, "None", EmptyMap, EmptyMap)),
                                TRUE)} :
            \E out \in broadcast_run(recorded.bus, recorded.b) :
                SetBus(out.bus)
        /\ next_uuid' = next_uuid + 1
        /\ args' = Append(args, node_id)
        /\ UNCHANGED <<db_nodes, subscribeFrame>>

NextSubscribe == SubscribeNode \/ UnsubscribeNode \/ SubscriberEvent

SpecSubscribe ==
    InitReplicate /\ [][NextSubscribe]_vars

OpenSockets(open, node_id) == {websocket \in open : websocket.node_id = node_id}

\* C30: when a connection of node n disconnects while another subscription
\* of n is open, n still has a registered subscription and its status stays
\* online; that subscription receives the events of the other nodes.
C30_Original ==
    [][/\ \A websocket \in alive :
            (/\ websocket \notin alive'
             /\ OpenSockets(alive', websocket.node_id) # {}) =>
                /\ websocket.node_id \in DOMAIN node_connections'
                /\ node_connections'[websocket.node_id] \in alive'
                /\ websocket.node_id \in DOMAIN db_nodes' =>
                        db_nodes'[websocket.node_id].status = "online"
       /\ Len(args') = Len(args) + 1 =>
            \A node_id \in Nodes \ {args'[Len(args')]} :
                OpenSockets(alive, node_id) # {} =>
                    \E websocket \in OpenSockets(alive, node_id) :
                        delivered'[websocket] # delivered[websocket]]_vars

(***************************************************************************)
(* Subscriptions whose delivery failed                                     *)
(***************************************************************************)
\* the subscriptions still registered after a broadcast whose send_text to
\* them raised: dashboards, and nodes other than the source of the event
FailedAndKept ==
    {c \in active_connections : c \notin alive}
        \cup {node_connections[n] :
                n \in {k \in DOMAIN node_connections :
                          /\ k \notin DOMAIN tasks
                          /\ node_connections[k] \notin alive}}

\* C31: after delivery of an event to a subscription fails, that subscription
\* is removed from the subscription sets, dashboard subscriptions and node
\* subscriptions alike.
C31_Original ==
    pc = "done" => FailedAndKept = {}

(***************************************************************************)
(* A node that goes offline                                                *)
(***************************************************************************)
\* C32: whenever a node's status changes to offline because its subscription
\* ended, a node_status_change event for that node is appended to the event
\* log.
C32_Original ==
    [][\A node_id \in DOMAIN db_nodes :
        (/\ node_id \in DOMAIN db_nodes'
         /\ db_nodes[node_id].status # "offline"
         /\ db_nodes'[node_id].status = "offline"
         /\ OpenSockets(alive, node_id) # OpenSockets(alive', node_id)) =>
            /\ Len(db_events') = Len(db_events) + 1
            /\ db_events'[Len(db_events')].event_type = "node_status_change"
            /\ db_events'[Len(db_events')].node_id = node_id]_vars

(***************************************************************************)
(* The events of the state-changing requests                               *)
(***************************************************************************)
\* the rows the conflicts table may hold when the server starts
Conflicts ==
    {[conflict_id |-> "c1", file_id |-> "f1", node1 |-> "n1", node2 |-> "n2",
      is_resolved |-> FALSE, resolution_strategy |-> "None",
      resolved_version_id |-> "None"]}

ConflictIds == {"c1", "c2"}

\* DatabaseManager.resolve_conflict: UPDATE conflicts SET ... WHERE conflict_id;
\* True is returned whether or not a row matched
db_resolve_conflict(srv, conflict_id, resolution_strategy, resolved_version_id) ==
    [srv EXCEPT !.db_conflicts =
        {IF c.conflict_id = conflict_id
         THEN [c EXCEPT !.is_resolved = TRUE,
                        !.resolution_strategy = resolution_strategy,
                        !.resolved_version_id = resolved_version_id]
         ELSE c : c \in @}]

\* POST /api/conflicts/{conflict_id}/resolve
resolve_conflict(srv, metrics, conflict_id, resolution_strategy) ==
    [srv |-> db_resolve_conflict(srv, conflict_id, resolution_strategy, "resolved"),
     metrics |-> [metrics EXCEPT !.total_conflicts_resolved = @ + 1],
     response |-> [op |-> "resolve_conflict", status_code |-> 200,
                   conflict_id |-> conflict_id]]

\* POST /api/files/{file_id}/restore
restore_file_version(srv, file_id, version_id, node_id) ==
    [srv |-> broadcast_event(srv, "file_modified", node_id, "None",
                             [file_id |-> file_id, action |-> "restored",
                              restored_version |-> version_id],
                             EmptyMap),
     response |-> [op |-> "restore_file_version", status_code |-> 200,
                   file_id |-> file_id, version_id |-> version_id]]

\* the version ids a server holds for a file
VersionIdsOf(srv, file_id) ==
    {Get(srv.file_versions, file_id, <<>>)[k].version_id :
        k \in 1..Len(Get(srv.file_versions, file_id, <<>>))}

\* the version ids a restore request names: one that was never given out,
\* and those of the versions held
RestoreVersionIds == {0} \cup UNION {VersionIdsOf(Server, f) : f \in ServerFiles}

\* a server that some nodes registered with, on which one of them may have
\* uploaded the empty file f1
served(registered, offline, owners) ==
    LET srv == registered_server(NewServer,
                                 SelectSeq(NodeOrder, LAMBDA n : n \in registered),
                                 offline)
    IN  IF owners = {} THEN srv
        ELSE upload_file(srv, [file_id |-> "f1",
                               owner_node |-> CHOOSE n \in owners : TRUE,
                               payload |-> <<>>, encoding |-> "hex", size |-> 0,
                               version |-> 1,
                               chunks |-> client_chunks(<<>>, "hex", 1),
                               use_delta_sync |-> TRUE]).srv

\* result holds self.metrics, args the list of the requests made
InitRequests ==
    \E registered \in SUBSET Nodes : \E offline \in SUBSET registered :
      \E owners \in {{}} \cup {{n} : n \in registered} :
        \E srv \in {served(registered, offline, owners)} :
            /\ metadata_dir = EmptyMap
            /\ versions_dir = EmptyMap
            /\ version_cache = EmptyMap
            /\ next_version_id = 1
            /\ node_clocks = srv.mgr.node_clocks
            /\ global_nodes = srv.mgr.global_nodes
            /\ observed = Observe(EmptyMap, srv.mgr)
            /\ lastOp = [op |-> "none"]
            /\ db_nodes = srv.db_nodes
            /\ db_files = srv.db_files
            /\ db_events = srv.db_events
            /\ db_conflicts \in SUBSET Conflicts
            /\ file_versions = srv.file_versions
            /\ file_content = srv.file_content
            /\ next_uuid = srv.next_uuid
            /\ response = [op |-> "none"]
            /\ uploaded = EmptyMap
            /\ active_connections = {}
            /\ node_connections = EmptyMap
            /\ alive = {}
            /\ delivered = EmptyMap
            /\ tasks = EmptyMap
            /\ args = <<>>
            /\ result = [total_conflicts_resolved |-> 0]
            /\ pc = "idle"

DeleteCall ==
    \E file_id \in ServerFiles, node_id \in Nodes :
        /\ Len(args) < MaxCalls
        /\ SetServer(delete_file(Server, file_id, node_id), lastOp)
        /\ args' = Append(args, [op |-> "delete_file", file_id |-> file_id])
        /\ UNCHANGED <<busVars, uploaded, versionVars, result, pc>>

RestoreCall ==
    \E file_id \in ServerFiles, version_id \in RestoreVersionIds, node_id \in Nodes :
        /\ Len(args) < MaxCalls
        /\ SetServer(restore_file_version(Server, file_id, version_id, node_id), lastOp)
        /\ args' = Append(args, [op |-> "restore_file_version", file_id |-> file_id,
                                 version_id |-> version_id])
        /\ UNCHANGED <<busVars, uploaded, versionVars, result, pc>>

ResolveCall ==
    \E conflict_id \in ConflictIds :
        \E out \in {resolve_conflict(Server, result, conflict_id, "latest")} :
            /\ Len(args) < MaxCalls
            /\ SetServer(out, lastOp)
            /\ result' = out.metrics
            /\ args' = Append(args, [op |-> "resolve_conflict",
                                     conflict_id |-> conflict_id])
            /\ UNCHANGED <<busVars, uploaded, versionVars, pc>>

NextRequests == RegisterCall \/ RemoveCall \/ DeleteCall \/ RestoreCall \/ ResolveCall

SpecRequests ==
    InitRequests /\ [][NextRequests]_vars

\* the places of the log after a step that hold an event the log did not
\* hold before
AppendedEvents ==
    {i \in 1..Len(db_events') :
        \A k \in 1..Len(db_events) : db_events[k].event_id # db_events'[i].event_id}

\* C33: each successful state-changing request other than upload appends
\* exactly one event to the log, and every successful resolve_conflict
\* appends one conflict_resolved event.
C33_Original ==
    [][(Len(args') = Len(args) + 1 /\ response'.status_code = 200) =>
            /\ Cardinality(AppendedEvents) = 1
            /\ response'.op = "resolve_conflict" =>
                    \A i \in AppendedEvents : db_events'[i].event_type = "conflict_resolved"]_vars

\* the last request made names something the server does not hold
NamesMissing(call) ==
    \/ /\ call.op = "restore_file_version"
       /\ \/ call.file_id \notin DOMAIN db_files
          \/ call.version_id \notin VersionIdsOf(Server, call.file_id)
    \/ /\ call.op = "resolve_conflict"
       /\ \A c \in db_conflicts : c.conflict_id # call.conflict_id

\* C34: restore_version with a file_id or version_id that does not exist, and
\* resolve_conflict with a conflict_id that does not exist, fail with
\* NotFound, append no event and change no stored state or metric.
C34_Original ==
    [][(Len(args') = Len(args) + 1 /\ NamesMissing(args'[Len(args')])) =>
            /\ response'.status_code = 404
            /\ db_events' = db_events
            /\ UNCHANGED <<db_nodes, db_files, db_conflicts, file_versions, file_content>>
            /\ result' = result]_vars

(***************************************************************************)
(* delete_version                                                          *)
(***************************************************************************)
\* _load_metadata_cache: every metadata file is read into the cache
load_metadata_cache(st) == [st EXCEPT !.cache = st.meta]

\* FileVersionManager.__init__ on the storage path in use: a manager with a
\* new cache, filled from the metadata directory
OpenManager ==
    /\ SetStore(load_metadata_cache(Store))
    /\ UNCHANGED <<busVars, next_version_id, clockVars, serverVars, pureVars>>

NextReopen == CreateVersion \/ DeleteVersion \/ OpenManager

SpecReopen ==
    Init /\ [][NextReopen]_vars

\* the stored versions of the file of a stored version, but for itself
OtherVersions(version_id) ==
    StoredVersionsOf(metadata_dir[version_id].file_id) \ {version_id}

\* a step of delete_version(version_id) that removed the version: no version
\* was created, and no other stored version went away
DeletedAlone(version_id) ==
    /\ next_version_id' = next_version_id
    /\ version_id \in DOMAIN metadata_dir
    /\ DOMAIN metadata_dir' = DOMAIN metadata_dir \ {version_id}

\* C35: delete_version(v) refuses, leaving the store unchanged, when v is the
\* sole version of its file and is current; otherwise it removes v, and if v
\* was the current version the highest-numbered remaining version of that
\* file becomes current while the is_current flag of every other remaining
\* version is unchanged.
C35_Original ==
    [][\A version_id \in DOMAIN metadata_dir :
        /\ (/\ next_version_id' = next_version_id
            /\ OtherVersions(version_id) = {}
            /\ metadata_dir[version_id].is_current) =>
                /\ version_id \in DOMAIN metadata_dir'
                /\ metadata_dir'[version_id] = metadata_dir[version_id]
                /\ version_id \in DOMAIN versions_dir'
        /\ DeletedAlone(version_id) =>
                /\ version_id \notin DOMAIN versions_dir'
                /\ (metadata_dir[version_id].is_current
                    /\ OtherVersions(version_id) # {}) =>
                        \E latest \in OtherVersions(version_id) :
                            /\ \A other \in OtherVersions(version_id) :
                                    metadata_dir[other].version_number
                                        <= metadata_dir[latest].version_number
                            /\ metadata_dir'[latest].is_current
                            /\ \A other \in OtherVersions(version_id) \ {latest} :
                                    metadata_dir'[other].is_current
                                        = metadata_dir[other].is_current]_vars

(***************************************************************************)
(* What register_node leaves alone                                         *)
(***************************************************************************)
\* C36: register_node(n) never lowers any component of any stored clock: when
\* n is already known, n's own stored clock and every other node's stored
\* entry for n keep their values; when n is new, other nodes' clocks only
\* gain the entry n: 0.
C36_Original ==
    [][lastOp'.op = "register" =>
        /\ \A m \in DOMAIN node_clocks :
            /\ m \in DOMAIN node_clocks'
            /\ \A k \in DOMAIN node_clocks[m] :
                /\ k \in DOMAIN node_clocks'[m]
                /\ node_clocks'[m][k] >= node_clocks[m][k]
        /\ lastOp'.node \in DOMAIN node_clocks =>
                node_clocks'[lastOp'.node] = node_clocks[lastOp'.node]
        /\ lastOp'.node \notin DOMAIN node_clocks =>
                \A m \in DOMAIN node_clocks :
                    node_clocks'[m] = Put(node_clocks[m], lastOp'.node, 0)]_vars

(***************************************************************************)
(* The clock of an upload's event                                          *)
(***************************************************************************)
\* the vector_clock a client sends along: none, or one ahead of what the
\* coordinator stores
RequestClocks == {EmptyMap, [n \in Nodes |-> MaxClock + 1]}

\* upload requests of at most one byte, each with its vector_clock
ClockedRequests ==
    {[request |-> request, vector_clock |-> vector_clock] :
        request \in {r \in UploadRequests : /\ r.encoding = "hex"
                                            /\ r.use_delta_sync
                                            /\ Len(r.payload) <= 1},
        vector_clock \in RequestClocks}

\* POST /api/files/upload; args counts the requests made
ClockedUpload ==
    \E call \in ClockedRequests :
        /\ Len(args) < MaxCalls
        /\ SetServer(upload_file(Server, call.request),
                     Seen("increment", call.request.owner_node, call.vector_clock))
        /\ args' = Append(args, "upload_file")
        /\ uploaded' = Put(uploaded, call.request.file_id, call.request.payload)
        /\ UNCHANGED <<busVars, versionVars, result, pc>>

\* POST /api/register between the uploads
ClockedRegister ==
    \E node_id \in Nodes :
        /\ Len(args) < MaxCalls
        /\ SetServer(api_register_node(Server, node_id),
                     Seen("register", node_id, EmptyMap))
        /\ args' = Append(args, "register_node")
        /\ UNCHANGED <<busVars, uploaded, versionVars, result, pc>>

NextUploadClock == ClockedRegister \/ ClockedUpload

SpecUploadClock ==
    InitReplicate /\ [][NextUploadClock]_vars

\* the places in the log of the file_modified events a step appended for an
\* upload
UploadedEvents ==
    {i \in AppendedEvents : /\ db_events'[i].event_type = "file_modified"
                            /\ db_events'[i].data.action = "uploaded"}

\* C37: the file_modified event of an upload by node n carries the
\* coordinator's stored clock of n after incrementing n's own entry by
\* exactly 1; the vector_clock sent in the upload request has no influence on
\* the stored clock or on the event's clock.
C37_UploadEventClock ==
    [][(/\ Len(args') = Len(args) + 1
        /\ args'[Len(args')] = "upload_file"
        /\ response'.status_code = 200) =>
            LET n == lastOp'.node
                before == Get(node_clocks, n, EmptyMap)
            IN  /\ Cardinality(UploadedEvents) = 1
                /\ \A i \in UploadedEvents :
                    /\ db_events'[i].node_id = n
                    /\ db_events'[i].vector_clock = node_clocks'[n]
                    /\ db_events'[i].vector_clock[n] = Get(before, n, 0) + 1
                    /\ \A k \in DOMAIN before \ {n} :
                            db_events'[i].vector_clock[k] = before[k]
                    /\ (args = <<>> /\ n \in DOMAIN node_clocks) =>
                            db_events'[i].vector_clock[n] = 2]_vars

\* the first upload of a registered node, which sent a clock ahead of the
\* stored one, was answered 200: its event carries 2 for the node
C37_Witness ==
    /\ args = <<"upload_file">>
    /\ response.status_code = 200
    /\ lastOp.had
    /\ lastOp.sender # EmptyMap
    /\ \E i \in 1..Len(db_events) :
        /\ db_events[i].event_type = "file_modified"
        /\ db_events[i].node_id = lastOp.node
        /\ db_events[i].vector_clock[lastOp.node] = 2
    /\ Cardinality(DOMAIN node_clocks) > 1

(***************************************************************************)
(* Two uploads of one file by one owner, replicated concurrently           *)
(***************************************************************************)
\* the two requests in flight
Uploaders == {"u1", "u2"}

\* uploads of f1, of no byte or of one
ConvergeRequests ==
    {[file_id |-> "f1", owner_node |-> owner_node, payload |-> payload,
      encoding |-> "hex", size |-> Len(payload), version |-> 1,
      chunks |-> client_chunks(payload, "hex", 1),
      use_delta_sync |-> use_delta_sync] :
        owner_node \in Nodes, payload \in {<<>>, <<97>>}, use_delta_sync \in BOOLEAN}

\* the nodes of this component: those of Nodes that registered, some of which
\* went offline
InitConverge ==
    \E registered \in SUBSET Nodes : \E offline \in SUBSET registered :
        \E srv \in {registered_server(NewServer,
                                      SelectSeq(NodeOrder, LAMBDA n : n \in registered),
                                      offline)} :
            /\ metadata_dir = EmptyMap
            /\ versions_dir = EmptyMap
            /\ version_cache = EmptyMap
            /\ next_version_id = 1
            /\ node_clocks = srv.mgr.node_clocks
            /\ global_nodes = srv.mgr.global_nodes
            /\ observed = Observe(EmptyMap, srv.mgr)
            /\ lastOp = [op |-> "none"]
            /\ db_nodes = srv.db_nodes
            /\ db_files = srv.db_files
            /\ db_events = srv.db_events
            /\ db_conflicts = srv.db_conflicts
            /\ file_versions = srv.file_versions
            /\ file_content = srv.file_content
            /\ next_uuid = srv.next_uuid
            /\ response = [op |-> "none"]
            /\ uploaded = EmptyMap
            /\ active_connections = {}
            /\ node_connections = EmptyMap
            /\ alive = {}
            /\ delivered = EmptyMap
            /\ tasks = EmptyMap
            /\ args = <<>>
            /\ result = <<>>
            /\ pc = "idle"

convergeFrame == <<active_connections, node_connections, alive, delivered,
                   versionVars, pureVars, uploaded>>

\* a request is over with the answer it gave
Answered(t, answer) ==
    [pc |-> "done", owner_node |-> tasks[t].owner_node, status_code |-> answer.status_code]

\* upload_file up to await self.db.store_file: the clock, the bytes, the delta
\* and the version of the owner's file
ConvergeCall ==
    \E t \in Uploaders \ DOMAIN tasks, request \in ConvergeRequests :
        /\ \A u \in DOMAIN tasks : tasks[u].owner_node = request.owner_node
        /\ \E accepted \in {upload_file_accept(Server, request)} :
            IF accepted.raised
            THEN /\ SetServer(accepted, Seen("increment", request.owner_node, EmptyMap))
                 /\ tasks' = Put(tasks, t, [pc |-> "done",
                                            owner_node |-> request.owner_node,
                                            status_code |-> 500])
            ELSE /\ SetServer([srv |-> accepted.versioned, response |-> response],
                              Seen("increment", request.owner_node, EmptyMap))
                 /\ tasks' = Put(tasks, t, [pc |-> "store",
                                            owner_node |-> request.owner_node,
                                            accepted |-> accepted, nodes |-> <<>>])
        /\ UNCHANGED convergeFrame

\* await self.db.store_file(request.file_metadata)
ConvergeStore ==
    \E t \in DOMAIN tasks :
        /\ tasks[t].pc = "store"
        /\ SetServer([srv |-> store_file(Server, tasks[t].accepted.file_metadata),
                      response |-> response], lastOp)
        /\ tasks' = [tasks EXCEPT ![t].pc = "broadcast"]
        /\ UNCHANGED convergeFrame

\* the file_modified event, then nodes = await self.db.get_online_nodes()
ConvergeEvent ==
    \E t \in DOMAIN tasks :
        /\ tasks[t].pc = "broadcast"
        /\ SetServer([srv |-> broadcast_event(
                                Server, "file_modified", tasks[t].owner_node,
                                tasks[t].accepted.file_metadata.file_id,
                                tasks[t].accepted.event_data,
                                tasks[t].accepted.file_metadata.vector_clock),
                      response |-> response], lastOp)
        /\ tasks' = [tasks EXCEPT ![t].pc = "loop", ![t].nodes = get_online_nodes(Server)]
        /\ UNCHANGED convergeFrame

\* the loop of _propagate_file_to_nodes passes over the owner, and is over
\* when no node is left: upload_file answers
ConvergeLoop ==
    \E t \in DOMAIN tasks :
        /\ tasks[t].pc = "loop"
        /\ IF tasks[t].nodes = <<>>
           THEN /\ tasks' = [tasks EXCEPT ![t] = Answered(t, tasks[t].accepted.response)]
                /\ response' = tasks[t].accepted.response
           ELSE /\ Head(tasks[t].nodes) = tasks[t].owner_node
                /\ tasks' = [tasks EXCEPT ![t].nodes = Tail(@)]
                /\ UNCHANGED response
        /\ UNCHANGED <<convergeFrame, clockVars, db_nodes, db_files, db_events,
                       db_conflicts, file_versions, file_content, next_uuid>>

\* the events sync_started, 25, 50 and 75 of the replication to a peer; they
\* write to the event log only and are recorded here in one step
ConvergeProgress ==
    \E t \in DOMAIN tasks :
        /\ tasks[t].pc = "loop"
        /\ tasks[t].nodes # <<>>
        /\ Head(tasks[t].nodes) # tasks[t].owner_node
        /\ SetServer([srv |-> sync_progress(
                                sync_started(Server, tasks[t].accepted.file_metadata,
                                             Head(tasks[t].nodes)),
                                tasks[t].accepted.file_metadata, Head(tasks[t].nodes),
                                sync_steps),
                      response |-> response], lastOp)
        /\ tasks' = [tasks EXCEPT ![t].pc = "replica"]
        /\ UNCHANGED convergeFrame

\* await self.db.store_file(replica_metadata)
ConvergeStoreReplica ==
    \E t \in DOMAIN tasks :
        /\ tasks[t].pc = "replica"
        /\ SetServer([srv |-> store_file(Server,
                                         replica_metadata(tasks[t].accepted.file_metadata,
                                                          Head(tasks[t].nodes))),
                      response |-> response], lastOp)
        /\ tasks' = [tasks EXCEPT ![t].pc = "version"]
        /\ UNCHANGED convergeFrame

\* create_version of the replica, up to the await of the sync_completed event
ConvergeReplicaVersion ==
    \E t \in DOMAIN tasks :
        /\ tasks[t].pc = "version"
        /\ SetServer([srv |-> replica_version(Server, tasks[t].accepted.file_metadata,
                                              tasks[t].accepted.file_data,
                                              Head(tasks[t].nodes)),
                      response |-> response], lastOp)
        /\ tasks' = [tasks EXCEPT ![t].pc = "completed"]
        /\ UNCHANGED convergeFrame

\* the sync_completed event: the loop goes on to the next node
ConvergeCompleted ==
    \E t \in DOMAIN tasks :
        /\ tasks[t].pc = "completed"
        /\ SetServer([srv |-> sync_completed(Server, tasks[t].accepted.file_metadata,
                                             tasks[t].accepted.file_data,
                                             Head(tasks[t].nodes)),
                      response |-> response], lastOp)
        /\ tasks' = [tasks EXCEPT ![t].pc = "loop", ![t].nodes = Tail(@)]
        /\ UNCHANGED convergeFrame

NextConverge ==
    \/ ConvergeCall \/ ConvergeStore \/ ConvergeEvent \/ ConvergeLoop
    \/ ConvergeProgress \/ ConvergeStoreReplica \/ ConvergeReplicaVersion
    \/ ConvergeCompleted

SpecConverge ==
    InitConverge /\ [][NextConverge]_vars

\* both uploads were accepted and have answered
BothReplicated ==
    /\ DOMAIN tasks = Uploaders
    /\ \A t \in Uploaders : tasks[t].pc = "done" /\ tasks[t].status_code = 200

\* the bytes of the current version of a file
CurrentBytes(file_id) ==
    get_version_content(Server, get_current_version(Server, file_id).version_id)

DeltaChunkSize == 4

window_size(chunk_size) == IF chunk_size \div 4 < 64 THEN chunk_size \div 4 ELSE 64

\* the longest content
MaxContent == 5

\* bytes one of which makes a boundary of find_chunk_boundaries
DeltaBytes == {96, 97}

DeltaContents == UNION {[1..n -> DeltaBytes] : n \in 0..MaxContent}

\* content[a:b] of Python, for 0 <= a
Slice(content, a, b) ==
    IF a >= Len(content) \/ b <= a THEN <<>>
    ELSE SubSeq(content, a + 1, IF b < Len(content) THEN b ELSE Len(content))

\* rolling_hash of a window of window_size bytes; the windows of this component
\* are of one byte, so the value is below 2**32 and % (2**32) leaves it as it is
RECURSIVE rolling_hash(_, _)
rolling_hash(data, hash_value) ==
    IF data = <<>> THEN hash_value
    ELSE rolling_hash(Tail(data), hash_value * 31 + Head(data))

\* find_chunk_boundaries(content, avg_chunk_size)
find_chunk_boundaries(content, avg_chunk_size) ==
    IF Len(content) <= avg_chunk_size THEN <<Len(content)>>
    ELSE SelectSeq([k \in 1..(Len(content) - 2 * window_size(avg_chunk_size)) |->
                        k - 1 + window_size(avg_chunk_size)],
                   LAMBDA i : rolling_hash(Slice(content, i - window_size(avg_chunk_size), i), 0)
                                % avg_chunk_size = 0)
         \o <<Len(content)>>

\* the chunks the loops of create_signature and generate_delta visit: they
\* stop at the first empty chunk
RECURSIVE ChunksAt(_, _, _)
ChunksAt(content, offset, boundaries) ==
    IF boundaries = <<>> \/ Slice(content, offset, Head(boundaries)) = <<>> THEN <<>>
    ELSE <<[offset |-> offset, data |-> Slice(content, offset, Head(boundaries))]>>
         \o ChunksAt(content, Head(boundaries), Tail(boundaries))

\* DeltaSync.create_signature: offset, size and strong_hash of the chunks
DeltaSync_create_signature(content) ==
    IF content = <<>> THEN <<>>
    ELSE [i \in DOMAIN ChunksAt(content, 0, find_chunk_boundaries(content, DeltaChunkSize)) |->
            [index |-> i - 1,
             offset |-> ChunksAt(content, 0, find_chunk_boundaries(content, DeltaChunkSize))[i].offset,
             size |-> Len(ChunksAt(content, 0, find_chunk_boundaries(content, DeltaChunkSize))[i].data),
             strong_hash |-> calculate_content_hash(
                ChunksAt(content, 0, find_chunk_boundaries(content, DeltaChunkSize))[i].data)]]

\* old_sig_map[strong_hash]: the last signature of that hash
old_sig(signatures, strong_hash) ==
    signatures[Max({i \in DOMAIN signatures : signatures[i].strong_hash = strong_hash})]

\* data and source_offset of a DeltaOperation that are None
NoData == <<>>

NoOffset == 0 - 1

\* DeltaOperation; the functions below treat data None and data b"" alike
DeltaOperation(operation, offset, size, data, source_offset) ==
    [operation |-> operation, offset |-> offset, size |-> size, data |-> data,
     source_offset |-> source_offset]

\* DeltaSync.generate_delta
generate_delta(old_content, new_content) ==
    IF old_content = <<>>
    THEN <<DeltaOperation("add", 0, Len(new_content), new_content, NoOffset)>>
    ELSE IF new_content = <<>>
    THEN <<DeltaOperation("delete", 0, Len(old_content), NoData, NoOffset)>>
    ELSE [i \in DOMAIN ChunksAt(new_content, 0,
                                find_chunk_boundaries(new_content, DeltaChunkSize)) |->
            LET new_chunk == ChunksAt(new_content, 0,
                                      find_chunk_boundaries(new_content, DeltaChunkSize))[i]
                old_signatures == DeltaSync_create_signature(old_content)
            IN  IF \E k \in DOMAIN old_signatures :
                        old_signatures[k].strong_hash = calculate_content_hash(new_chunk.data)
                THEN DeltaOperation("copy", new_chunk.offset, Len(new_chunk.data), NoData,
                                    old_sig(old_signatures,
                                            calculate_content_hash(new_chunk.data)).offset)
                ELSE DeltaOperation("add", new_chunk.offset, Len(new_chunk.data),
                                    new_chunk.data, NoOffset)]

\* DeltaSync.apply_delta
RECURSIVE DeltaSync_apply_delta(_, _)
DeltaSync_apply_delta(old_content, delta_ops) ==
    IF delta_ops = <<>> THEN <<>>
    ELSE (IF Head(delta_ops).operation = "add"
          THEN Head(delta_ops).data
          ELSE IF /\ Head(delta_ops).operation = "copy"
                  /\ Head(delta_ops).source_offset # NoOffset
                  /\ old_content # <<>>
          THEN Slice(old_content, Head(delta_ops).source_offset,
                     Head(delta_ops).source_offset + Head(delta_ops).size)
          ELSE <<>>)
         \o DeltaSync_apply_delta(old_content, Tail(delta_ops))

\* a test that takes any two add operations
MergeableAdds(current_op, next_op) ==
    /\ current_op.operation = "add"
    /\ next_op.operation = "add"

\* the test of optimize_delta: two add operations, the second at the end of
\* the first
Mergeable(current_op, next_op) ==
    /\ current_op.operation = "add"
    /\ next_op.operation = "add"
    /\ current_op.offset + current_op.size = next_op.offset

\* data or b""
DataOrEmpty(op) == IF op.data = NoData THEN <<>> ELSE op.data

\* the loop of optimize_delta
RECURSIVE optimize_loop(_, _, _)
optimize_loop(optimized, current_op, rest) ==
    IF rest = <<>> THEN Append(optimized, current_op)
    ELSE IF Mergeable(current_op, Head(rest))
    THEN optimize_loop(optimized,
                       DeltaOperation("add", current_op.offset,
                                      current_op.size + Head(rest).size,
                                      DataOrEmpty(current_op) \o DataOrEmpty(Head(rest)),
                                      NoOffset),
                       Tail(rest))
    ELSE optimize_loop(Append(optimized, current_op), Head(rest), Tail(rest))

\* DeltaSync.optimize_delta
optimize_delta(delta_ops) ==
    IF delta_ops = <<>> THEN <<>>
    ELSE optimize_loop(<<>>, Head(delta_ops), Tail(delta_ops))

\* operations a caller may hand to optimize_delta
GivenOperations ==
    {DeltaOperation("add", offset, 1, <<byte>>, NoOffset) : offset \in 0..1, byte \in DeltaBytes}
    \cup {DeltaOperation("copy", 0, 1, NoData, 0)}
    \cup {DeltaOperation("delete", 0, 1, NoData, NoOffset)}

\* the longest list handed to optimize_delta
MaxOps == 3

GivenLists(longest) == UNION {[1..n -> GivenOperations] : n \in 0..longest}

\* the inputs: two contents, or one content and a list of operations
DeltaInputs(contents, lists) ==
    {[old_content |-> old_content, new_content |-> new_content, given |-> FALSE,
      delta_ops |-> <<>>] : old_content \in contents, new_content \in contents}
    \cup {[old_content |-> old_content, new_content |-> <<>>, given |-> TRUE,
           delta_ops |-> delta_ops] :
            old_content \in {<<>>, <<96>>}, delta_ops \in lists}

InitDeltaOps ==
    /\ metadata_dir = EmptyMap
    /\ versions_dir = EmptyMap
    /\ version_cache = EmptyMap
    /\ next_version_id = 1
    /\ node_clocks = EmptyMap
    /\ global_nodes = {}
    /\ observed = EmptyMap
    /\ lastOp = [op |-> "none"]
    /\ db_nodes = NewServer.db_nodes
    /\ db_files = NewServer.db_files
    /\ db_events = NewServer.db_events
    /\ db_conflicts = NewServer.db_conflicts
    /\ file_versions = NewServer.file_versions
    /\ file_content = NewServer.file_content
    /\ next_uuid = NewServer.next_uuid
    /\ response = [op |-> "none"]
    /\ uploaded = EmptyMap
    /\ active_connections = {}
    /\ node_connections = EmptyMap
    /\ alive = {}
    /\ delivered = EmptyMap
    /\ tasks = EmptyMap
    /\ args \in DeltaInputs(DeltaContents, GivenLists(MaxOps))
    /\ result = <<>>
    /\ pc = "start"

deltaOpsFrame == <<versionVars, clockVars, serverVars, uploaded, active_connections,
                   node_connections, alive, delivered, tasks, args>>

\* delta_ops = generate_delta(old_content, new_content)
GenerateDelta ==
    /\ pc = "start"
    /\ ~args.given
    /\ result' = generate_delta(args.old_content, args.new_content)
    /\ pc' = "generated"
    /\ UNCHANGED deltaOpsFrame

\* optimize_delta of the generated list, or of the list handed in
OptimizeDelta ==
    /\ \/ pc = "generated" /\ result' = optimize_delta(result)
       \/ pc = "start" /\ args.given /\ result' = optimize_delta(args.delta_ops)
    /\ pc' = "optimized"
    /\ UNCHANGED deltaOpsFrame

NextDeltaOps == GenerateDelta \/ OptimizeDelta

SpecDeltaOps ==
    InitDeltaOps /\ [][NextDeltaOps]_vars

\* the operations of a list that are not add operations, in their order
NotAdds(delta_ops) == SelectSeq(delta_ops, LAMBDA op : op.operation # "add")

\* the places of a list where an add operation is followed by an add operation
\* that begins where it ends
Adjacent(delta_ops) ==
    {i \in 1..(Len(delta_ops) - 1) :
        /\ delta_ops[i].operation = "add"
        /\ delta_ops[i + 1].operation = "add"
        /\ delta_ops[i + 1].offset = delta_ops[i].offset + delta_ops[i].size}

\* the list optimize_delta was called with
Unoptimized == IF args.given THEN args.delta_ops
               ELSE generate_delta(args.old_content, args.new_content)

\* C39: for all byte strings X and Y, apply_delta(X, optimize_delta(
\* generate_delta(X, Y))) = apply_delta(X, generate_delta(X, Y)) = Y;
\* optimize_delta merges two consecutive add operations exactly when the
\* second begins where the first ends, and leaves copy and delete operations
\* and their order unchanged.
C39_OptimizedDelta ==
    /\ (pc = "generated") => DeltaSync_apply_delta(args.old_content, result) = args.new_content
    /\ (pc = "optimized" /\ ~args.given) =>
            DeltaSync_apply_delta(args.old_content, result) = args.new_content
    /\ (pc = "optimized") =>
            /\ Len(result) = Len(Unoptimized) - Cardinality(Adjacent(Unoptimized))
            /\ Adjacent(result) = {}
            /\ NotAdds(result) = NotAdds(Unoptimized)
            /\ DeltaSync_apply_delta(args.old_content, result)
                = DeltaSync_apply_delta(args.old_content, Unoptimized)

\* a generated list of a copy and two add operations, which optimize_delta
\* merged
C39_Witness ==
    /\ pc = "optimized"
    /\ ~args.given
    /\ Adjacent(Unoptimized) # {}
    /\ \E i \in DOMAIN result : result[i].operation = "copy"
    /\ \E i \in DOMAIN result : result[i].operation = "add" /\ result[i].size > 1

(***************************************************************************)
(* ChunkStore                                                              *)
(***************************************************************************)
ChunkHashes == {"h1", "h2"}

\* the calls made to one ChunkStore
MaxChunkCalls == 4

\* ChunkStore.__init__: chunk_index, and the *.chunk files of storage_path
NewChunkStore == [chunk_index |-> EmptyMap, files |-> EmptyMap]

\* ChunkStore.store_chunk
store_chunk(store, chunk_hash, chunk_data) ==
    [chunk_index |-> Put(store.chunk_index, chunk_hash,
                         [size |-> Len(chunk_data), path |-> chunk_hash, ref_count |-> 1]),
     files |-> Put(store.files, chunk_hash, chunk_data)]

\* ChunkStore.has_chunk
has_chunk(store, chunk_hash) == chunk_hash \in DOMAIN store.chunk_index

\* ChunkStore.delete_chunk: the store, and the value returned
delete_chunk(store, chunk_hash) ==
    IF chunk_hash \notin DOMAIN store.chunk_index
    THEN [store |-> store, returned |-> FALSE]
    ELSE IF store.chunk_index[chunk_hash].ref_count - 1 <= 0
    THEN [store |-> [chunk_index |-> Remove(store.chunk_index, chunk_hash),
                     files |-> Remove(store.files, store.chunk_index[chunk_hash].path)],
          returned |-> TRUE]
    ELSE [store |-> [store EXCEPT !.chunk_index[chunk_hash].ref_count = @ - 1],
          returned |-> TRUE]

\* ChunkStore.cleanup_unreferenced: delete_chunk of the entries of no reference
RECURSIVE cleanup_chunks(_, _)
cleanup_chunks(store, chunks_to_remove) ==
    IF chunks_to_remove = {} THEN store
    ELSE cleanup_chunks(delete_chunk(store, CHOOSE h \in chunks_to_remove : TRUE).store,
                        chunks_to_remove \ {CHOOSE h \in chunks_to_remove : TRUE})

cleanup_unreferenced(store) ==
    cleanup_chunks(store, {h \in DOMAIN store.chunk_index :
                                store.chunk_index[h].ref_count <= 0})

InitChunks ==
    /\ metadata_dir = EmptyMap
    /\ versions_dir = EmptyMap
    /\ version_cache = EmptyMap
    /\ next_version_id = 1
    /\ node_clocks = EmptyMap
    /\ global_nodes = {}
    /\ observed = EmptyMap
    /\ lastOp = [op |-> "none"]
    /\ db_nodes = NewServer.db_nodes
    /\ db_files = NewServer.db_files
    /\ db_events = NewServer.db_events
    /\ db_conflicts = NewServer.db_conflicts
    /\ file_versions = NewServer.file_versions
    /\ file_content = NewServer.file_content
    /\ next_uuid = NewServer.next_uuid
    /\ response = [op |-> "none"]
    /\ uploaded = EmptyMap
    /\ active_connections = {}
    /\ node_connections = EmptyMap
    /\ alive = {}
    /\ delivered = EmptyMap
    /\ tasks = EmptyMap
    /\ args = <<>>
    /\ result = NewChunkStore
    /\ pc = "idle"

chunksFrame == <<versionVars, clockVars, serverVars, uploaded, active_connections,
                 node_connections, alive, delivered, tasks, pc>>

\* store_chunk(chunk_hash, chunk_data): args keeps the calls made
StoreChunk ==
    \E chunk_hash \in ChunkHashes :
        /\ Len(args) < MaxChunkCalls
        /\ result' = store_chunk(result, chunk_hash, <<97>>)
        /\ args' = Append(args, [op |-> "store_chunk", chunk_hash |-> chunk_hash,
                                 returned |-> TRUE])
        /\ UNCHANGED chunksFrame

\* delete_chunk(chunk_hash)
DeleteChunk ==
    \E chunk_hash \in ChunkHashes :
        /\ Len(args) < MaxChunkCalls
        /\ result' = delete_chunk(result, chunk_hash).store
        /\ args' = Append(args, [op |-> "delete_chunk", chunk_hash |-> chunk_hash,
                                 returned |-> delete_chunk(result, chunk_hash).returned])
        /\ UNCHANGED chunksFrame

\* cleanup_unreferenced()
CleanupUnreferenced ==
    /\ Len(args) < MaxChunkCalls
    /\ result' = cleanup_unreferenced(result)
    /\ args' = Append(args, [op |-> "cleanup_unreferenced", chunk_hash |-> "",
                             returned |-> TRUE])
    /\ UNCHANGED chunksFrame

NextChunks == StoreChunk \/ DeleteChunk \/ CleanupUnreferenced

SpecChunks ==
    InitChunks /\ [][NextChunks]_vars

\* the calls of an operation on a hash that returned True
ChunkCalls(op, chunk_hash) ==
    Cardinality({i \in DOMAIN args : /\ args[i].op = op
                                     /\ args[i].chunk_hash = chunk_hash
                                     /\ args[i].returned})

\* C40: a chunk that has been put (store_chunk) k times under the same hash
\* stays present (has/get succeed) until it has been released (delete_chunk)
\* k times, and is removed exactly when its reference count reaches zero;
\* gc (cleanup_unreferenced) removes only entries with zero references.
C40_Original ==
    /\ \A chunk_hash \in ChunkHashes :
        /\ has_chunk(result, chunk_hash)
            <=> ChunkCalls("store_chunk", chunk_hash) > ChunkCalls("delete_chunk", chunk_hash)
        /\ has_chunk(result, chunk_hash) => chunk_hash \in DOMAIN result.files
    /\ (args # <<>> /\ args[Len(args)].op = "cleanup_unreferenced") =>
        \A chunk_hash \in ChunkHashes :
            ChunkCalls("store_chunk", chunk_hash) > ChunkCalls("delete_chunk", chunk_hash)
                => has_chunk(result, chunk_hash)

====
